---- MODULE Spec2Model ----
(***************************************************************************)
(* Model of the browser client (frontend/script.js): the group swipe       *)
(* session and the pairwise ranker, together with the shared swipe and     *)
(* ranking state of the backend it talks to (/swipe-state, /swipe-action,  *)
(* /swipe-confirm, /state, /vote, /reset, /rank-confirm, /load-csv,        *)
(* /generate, /reset-all).                                                 *)
(*                                                                         *)
(* The client state is the set of module-level `let` variables of          *)
(* script.js.  Every event handler is one action; the helper functions a   *)
(* handler calls are operators over a record `c` holding the client state, *)
(* returning the SET of records the call can produce (the only source of   *)
(* nondeterminism inside a handler is shuffleArray).                       *)
(***************************************************************************)
EXTENDS Integers, Sequences, FiniteSets, TLC

\* ------------------------------------------------------------------ bounds
MaxPending == 1
MaxPendingLong == 2
MaxQueue == 2
MaxShown == 2
MaxInFlight == 2
MaxVotes == 2
MaxVotesLong == 3
MaxCsvCalls == 2

\* ------------------------------------------------------- program constants
MinPersons == 2
MaxPersons == 5
\* ts_sigma is counted in units of 0.0001: the floor of ensureTsRating, and
\* the 400 that TS_SIGMA starts with
SigmaFloor == 1
DefaultTsSigma == 4000000

\* the titles and the voter counts the user enters
Titles == {"X", "Y"}
PersonInputs == {2, 3}
PersonRequests == {1, 3, 6}
PersonNames == <<"p1", "p2", "p3", "p4", "p5">>
Decisions == {"Ja", "Nein"}

\* ----------------------------------------------------------------- helpers
Min(a, b) == IF a < b THEN a ELSE b
Max(a, b) == IF a > b THEN a ELSE b
clamp(val, lo, hi) == Max(lo, Min(hi, val))
SeqToSet(s) == {s[i] : i \in 1..Len(s)}
Includes(s, x) == \E i \in 1..Len(s) : s[i] = x
RemoveAt(s, i) == [j \in 1..(Len(s) - 1) |-> IF j < i THEN s[j] ELSE s[j + 1]]
\* answers still under way when a later answer is applied are stale (history)
MarkStale(s, n) == [j \in 1..Len(s) |-> IF j <= n THEN [s[j] EXCEPT !.stale = TRUE] ELSE s[j]]

\* Array.prototype.filter(t => keep.includes(t))
RECURSIVE Keep(_, _)
Keep(s, keep) ==
  IF s = <<>> THEN <<>>
  ELSE IF Head(s) \in keep THEN <<Head(s)>> \o Keep(Tail(s), keep)
       ELSE Keep(Tail(s), keep)

\* shuffleArray: Fisher-Yates over a copy; every permutation can come out.
shuffleArray(arr) ==
  IF Len(arr) = 0 THEN {<<>>}
  ELSE {[i \in 1..Len(arr) |-> arr[f[i]]] : f \in Permutations(1..Len(arr))}

\* ------------------------------------------------------------------- state
VARIABLES
  swipeSelectedMovies,  \* sequence of [title, source]
  swipeLikes,           \* title -> voter ids (object, keys may be absent); the arrays
                        \* never hold a voter twice and their order is never read
  swipeMatches,         \* Set of titles
  swipePersonCount,
  swipePersons,         \* sequence of voter ids
  swipeCurrentPerson,
  swipeCurrentIndex,
  swipeOrder,           \* sequence of titles (the movie objects of the active voter's order)
  swipeCompleted,
  swipeProgress,        \* voter id -> [idx, done, order]
  swipeLocked,
  swipeStateReadyToPersist,
  matchQueue,
  seenMatches,
  matchModalOpen,
  deckHidden,           \* 'hidden' class of swipeDeckSection
  pending,              \* decisions between the gesture and the end of sendSwipeDecision
  server,               \* the shared swipe state held by the backend
  backend,              \* "up", "error" (answers with an error status) or
                        \* "unreachable" (fetch rejects)
  shown,                \* history: how often showMatchModal ran per title (saturating)
  lastOp,               \* history: the handler that ran last and its arguments
  polls,                \* answers to GET /swipe-state on their way to the device
  \* ---- ranker
  movies,               \* sequence of titles (the catalog as the device holds it)
  ratings,              \* title -> [games, wins]
  comparisonCount,      \* voter -> number of votes
  persons,
  personCount,
  currentPerson,
  currentPair,          \* Null or <<left title, right title>>
  totalVotes,
  pairCoverage,         \* [coveredPairs, totalPairs, ratio]
  pairCoveragePerPerson,
  rankerConfirmed,
  voteHidden,           \* 'hidden' class of voteSection
  TS_SIGMA,             \* the default sigma, replaced by tsConfig.sigma of a snapshot
  rankServer,           \* the shared ranking state held by the backend
  rankInFlight,         \* answers to ranking requests on their way to the device
  rankOp,               \* history: the ranker handler that ran last
  \* ---- configuration
  appConfig,            \* the frontend configuration, a JSON value
  configAnswer,         \* history: what the request for config/client.json gave
  \* ---- dialogs
  pendingConfirmAction, \* NoAction (null) or the name of the function OK will call
  confirmHidden,        \* 'hidden' class of confirmOverlay
  \* ---- CSV fallback of the first fetchState
  csvFallbackAttempted,
  csvCalls,             \* history: how often fetchState called loadMoviesFromCsv (saturating)
  \* ---- controller
  gamepadPrevButtons,   \* button -> pressed when wasButtonPressed last looked at it
  settingsHidden,       \* 'hidden' class of settingsOverlay
  padPressed,           \* history: the buttons pressed in the frame polled last
  padEdges              \* history: the buttons wasButtonPressed reported in that frame

swipeVars == <<swipeSelectedMovies, swipeLikes, swipeMatches, swipePersonCount,
               swipePersons, swipeCurrentPerson, swipeCurrentIndex, swipeOrder,
               swipeCompleted, swipeProgress, swipeLocked, swipeStateReadyToPersist,
               matchQueue, seenMatches, matchModalOpen, deckHidden, pending, server,
               shown, lastOp, polls>>

rankVars == <<movies, ratings, comparisonCount, persons, personCount, currentPerson,
              currentPair, totalVotes, pairCoverage, pairCoveragePerPerson,
              rankerConfirmed, voteHidden, TS_SIGMA, rankServer, rankInFlight, rankOp>>

cfgVars == <<appConfig, configAnswer>>

dialogVars == <<pendingConfirmAction, confirmHidden>>

csvVars == <<csvFallbackAttempted, csvCalls>>

padRest == <<gamepadPrevButtons, padPressed, padEdges>>

padVars == <<settingsHidden, padRest>>

uiVars == <<dialogVars, csvVars, padVars>>

vars == <<swipeVars, backend, rankVars, cfgVars, uiVars>>

\* The client state as one record; `outbox` collects the bodies that
\* persistSwipeState POSTs while the handler runs.
Cur ==
  [movies |-> swipeSelectedMovies, likes |-> swipeLikes, matches |-> swipeMatches,
   personCount |-> swipePersonCount, persons |-> swipePersons,
   currentPerson |-> swipeCurrentPerson, currentIndex |-> swipeCurrentIndex,
   order |-> swipeOrder, completed |-> swipeCompleted, progress |-> swipeProgress,
   locked |-> swipeLocked, ready |-> swipeStateReadyToPersist,
   matchQueue |-> matchQueue, seenMatches |-> seenMatches,
   modalOpen |-> matchModalOpen, deckHidden |-> deckHidden,
   shown |-> shown, outbox |-> <<>>]

MovieTitles(c) == [i \in 1..Len(c.movies) |-> c.movies[i].title]
TitleSet(c) == {c.movies[i].title : i \in 1..Len(c.movies)}

\* JSON body of persistSwipeState / confirmSwipeSetup
Snapshot(c) ==
  [movies |-> c.movies, progress |-> c.progress, persons |-> c.persons,
   likes |-> c.likes, matches |-> c.matches, locked |-> c.locked]

\* persistSwipeState as it would be without the swipeStateReadyToPersist guard
persistSwipeStateUnguarded(c, force) ==
  [c EXCEPT !.outbox = Append(@, Snapshot(c))]

persistSwipeState(c, force) ==
  IF ~force /\ ~c.ready THEN c
  ELSE [c EXCEPT !.outbox = Append(@, Snapshot(c))]

randomOrderTitles(c) == shuffleArray(MovieTitles(c))

\* getSwipeMovieByTitle never returns null for a non-empty title: an unknown
\* title yields a placeholder movie, so the order keeps every title.
titlesToMovieOrder(titles) == titles

updateSwipeDeckVisibility(c) ==
  [c EXCEPT !.deckHidden = ~(c.locked /\ Len(c.movies) > 0)]

FreshProgress(c) ==
  [SeqToSet(c.persons) -> [idx : {0}, done : {FALSE}, order : randomOrderTitles(c)]]

\* resetSwipeProgressAll as it would be if it moved every cursor back to 0
\* and kept the orders it finds
resetSwipeProgressAllKeepingOrders(c) ==
  { persistSwipeState(
      [c EXCEPT !.progress = [p \in DOMAIN c.progress |->
                                [c.progress[p] EXCEPT !.idx = 0, !.done = FALSE]],
                !.currentIndex = 0,
                !.completed = Len(c.order) = 0],
      FALSE) }

\* resetSwipeProgressAll as it would be if it also dropped the votes
resetSwipeProgressAllClearingVotes(c) ==
  UNION {
    { LET current == IF c.currentPerson \in DOMAIN prog
                     THEN prog[c.currentPerson]
                     ELSE [idx |-> 0, done |-> FALSE, order |-> o]
          ord == titlesToMovieOrder(current.order)
      IN persistSwipeState(
           [c EXCEPT !.progress = prog,
                     !.order = ord,
                     !.currentIndex = current.idx,
                     !.completed = current.done \/ Len(ord) = 0,
                     !.likes = <<>>,
                     !.matches = {}],
           FALSE)
      : o \in IF c.currentPerson \in DOMAIN prog
              THEN {<<>>} ELSE randomOrderTitles(c) }
    : prog \in FreshProgress(c) }

resetSwipeProgressAll(c) ==
  UNION {
    { LET current == IF c.currentPerson \in DOMAIN prog
                     THEN prog[c.currentPerson]
                     ELSE [idx |-> 0, done |-> FALSE, order |-> o]
          ord == titlesToMovieOrder(current.order)
      IN persistSwipeState(
           [c EXCEPT !.progress = prog,
                     !.order = ord,
                     !.currentIndex = current.idx,
                     !.completed = current.done \/ Len(ord) = 0],
           FALSE)
      : o \in IF c.currentPerson \in DOMAIN prog
              THEN {<<>>} ELSE randomOrderTitles(c) }
    : prog \in FreshProgress(c) }

saveSwipeProgress(c, person) ==
  LET orderTitles == c.order
      entry == [idx |-> Min(c.currentIndex, Len(orderTitles)),
                done |-> c.completed,
                order |-> orderTitles]
      prog == [p \in DOMAIN c.progress \cup {person} |->
                 IF p = person THEN entry ELSE c.progress[p]]
  IN persistSwipeState([c EXCEPT !.progress = prog], FALSE)

applySwipeProgress(c, person) ==
  LET missing == person \notin DOMAIN c.progress
                 \/ Len(c.progress[person].order) = 0
      cands == IF missing
               THEN {[idx |-> 0, done |-> FALSE, order |-> o] : o \in randomOrderTitles(c)}
               ELSE {c.progress[person]}
  IN { LET ord == titlesToMovieOrder(st.order)
           maxIdx == Len(ord)
           idx == Min(st.idx, maxIdx)
       IN [c EXCEPT !.progress = [p \in DOMAIN c.progress \cup {person} |->
                                    IF p = person THEN st ELSE c.progress[p]],
                    !.order = ord,
                    !.currentIndex = idx,
                    !.completed = st.done \/ maxIdx = 0 \/ idx >= maxIdx]
       : st \in cands }

\* ------------------------------------------------------ match notifications
showMatchModal(c, title) ==
  [c EXCEPT !.modalOpen = TRUE,
            !.seenMatches = @ \cup {title},
            !.shown = [@ EXCEPT ![title] = Min(@ + 1, MaxShown)]]

processMatchQueue(c) ==
  IF c.modalOpen THEN c
  ELSE IF c.matchQueue = <<>> THEN c
  ELSE showMatchModal([c EXCEPT !.matchQueue = Tail(@)], Head(c.matchQueue))

enqueueMatchModal(c, title) ==
  IF title \in c.seenMatches THEN c
  ELSE processMatchQueue([c EXCEPT !.matchQueue = Append(@, title)])

\* closeMatchModal as it would be without its call of processMatchQueue
closeMatchModalKeepingQueue(c) ==
  [c EXCEPT !.modalOpen = FALSE]

closeMatchModal(c) ==
  processMatchQueue([c EXCEPT !.modalOpen = FALSE])

\* ------------------------------------------------------------ like / dislike
LikesOf(likes, t) == IF t \in DOMAIN likes THEN likes[t] ELSE {}
SetLikes(likes, t, v) == [k \in DOMAIN likes \cup {t} |-> IF k = t THEN v ELSE likes[k]]

recordSwipeLike(c, movie, person) ==
  LET cur == LikesOf(c.likes, movie)
      lst == IF person \in cur THEN cur ELSE cur \cup {person}
      c1 == [c EXCEPT !.likes = SetLikes(c.likes, movie, lst)]
      c2 == IF Cardinality(lst) >= c1.personCount
            THEN enqueueMatchModal([c1 EXCEPT !.matches = @ \cup {movie}], movie)
            ELSE c1
  IN persistSwipeState(c2, FALSE)

\* recordSwipeDislike as it would be if a no vote also withdrew the match
recordSwipeDislikeRetracting(c, movie, person) ==
  IF movie \notin DOMAIN c.likes THEN c
  ELSE persistSwipeState(
         [c EXCEPT !.likes = SetLikes(c.likes, movie, c.likes[movie] \ {person}),
                   !.matches = @ \ {movie}],
         FALSE)

recordSwipeDislike(c, movie, person) ==
  IF movie \notin DOMAIN c.likes THEN c
  ELSE persistSwipeState(
         [c EXCEPT !.likes = SetLikes(c.likes, movie, c.likes[movie] \ {person})],
         FALSE)

\* ------------------------------------------------- applying a server snapshot
\* normalizeSwipeProgress, one voter: keep the known titles of the stored
\* order, append the missing ones shuffled, clamp the cursor.
NormalizedEntries(progress, p, titles, c) ==
  LET has == p \in DOMAIN progress
      kept == IF has THEN Keep(progress[p].order, SeqToSet(titles)) ELSE <<>>
      missing == Keep(titles, SeqToSet(titles) \ SeqToSet(kept))
      stIdx == IF has THEN progress[p].idx ELSE 0
      stDone == IF has THEN progress[p].done ELSE FALSE
      orders == IF Len(missing) > 0
                THEN {kept \o m : m \in shuffleArray(missing)}
                ELSE IF Len(kept) = 0 THEN randomOrderTitles(c)
                ELSE {kept}
  IN { LET idx == clamp(stIdx, 0, Len(o))
       IN [idx |-> idx, done |-> stDone \/ idx >= Len(o), order |-> o]
       : o \in orders }

RECURSIVE normalizeSwipeProgressFrom(_, _, _, _, _)
normalizeSwipeProgressFrom(progress, voters, titles, c, i) ==
  IF i > Len(voters) THEN {<<>>}
  ELSE { [p \in DOMAIN rest \cup {voters[i]} |->
            IF p = voters[i] THEN e ELSE rest[p]]
         : e \in NormalizedEntries(progress, voters[i], titles, c),
           rest \in normalizeSwipeProgressFrom(progress, voters, titles, c, i + 1) }

normalizeSwipeProgress(progress, voters, titles, c) ==
  normalizeSwipeProgressFrom(progress, voters, titles, c, 1)

\* swipeMatches.forEach(m => { if (!prevMatches.has(m)) enqueueMatchModal(m) })
RECURSIVE EnqueueAll(_, _)
EnqueueAll(c, ms) ==
  IF ms = <<>> THEN c ELSE EnqueueAll(enqueueMatchModal(c, Head(ms)), Tail(ms))

SetAsSeqs(S) ==
  IF S = {} THEN {<<>>}
  ELSE {s \in [1..Cardinality(S) -> S] : SeqToSet(s) = S}

applySwipeStateFromServer(c, state) ==
  LET prevMatches == c.matches
      voters == IF Len(state.persons) > 0 THEN state.persons
                 ELSE IF Len(c.persons) > 0 THEN c.persons
                 ELSE <<"p1", "p2">>
      c1 == [c EXCEPT !.movies = state.movies,
                      !.persons = voters,
                      !.personCount = IF Len(voters) > 0 THEN Len(voters) ELSE 2,
                      !.likes = state.likes,
                      !.matches = state.matches]
      fresh == state.matches \ prevMatches
  IN UNION {
       UNION {
         LET c2 == EnqueueAll(c1, ms)
             c3 == [c2 EXCEPT !.seenMatches = @ \cup c2.matches,
                              !.locked = state.locked,
                              !.progress = prog,
                              !.currentPerson =
                                 IF Includes(voters, c2.currentPerson)
                                 THEN c2.currentPerson ELSE voters[1]]
         IN { updateSwipeDeckVisibility(c4) : c4 \in applySwipeProgress(c3, c3.currentPerson) }
         : prog \in normalizeSwipeProgress(state.progress, voters, MovieTitles(c1), c1) }
       : ms \in SetAsSeqs(fresh) }

\* ------------------------------------------------------------ list handlers
setSwipePersons(c, n) ==
  LET cnt == Max(MinPersons, Min(MaxPersons, n))
      c1 == [c EXCEPT !.personCount = cnt,
                      !.persons = [i \in 1..cnt |-> PersonNames[i]],
                      !.currentPerson = PersonNames[1]]
  IN UNION { { persistSwipeState(c3, FALSE) : c3 \in applySwipeProgress(c2, c2.currentPerson) }
             : c2 \in resetSwipeProgressAll(c1) }

addSwipeMovie(c, title) ==
  IF title \in TitleSet(c) THEN {c}
  ELSE LET c1 == [c EXCEPT !.movies = Append(@, [title |-> title, source |-> "manual"]),
                           !.likes = SetLikes(c.likes, title, LikesOf(c.likes, title))]
       IN { persistSwipeState(updateSwipeDeckVisibility(c2), FALSE)
            : c2 \in resetSwipeProgressAll(c1) }

\* removeSwipeMovie as it would be without swipeMatches.delete(title)
removeSwipeMovieKeepingMatch(c, title) ==
  LET c1 == [c EXCEPT !.movies = SelectSeq(@, LAMBDA m : m.title # title),
                      !.likes = [k \in DOMAIN c.likes \ {title} |-> c.likes[k]]]
  IN { persistSwipeState(updateSwipeDeckVisibility(c2), FALSE)
       : c2 \in resetSwipeProgressAll(c1) }

removeSwipeMovie(c, title) ==
  LET c1 == [c EXCEPT !.movies = SelectSeq(@, LAMBDA m : m.title # title),
                      !.likes = [k \in DOMAIN c.likes \ {title} |-> c.likes[k]],
                      !.matches = @ \ {title}]
  IN { persistSwipeState(updateSwipeDeckVisibility(c2), FALSE)
       : c2 \in resetSwipeProgressAll(c1) }

performClearSwipeList(c) ==
  LET c1 == [c EXCEPT !.movies = <<>>, !.order = <<>>, !.likes = <<>>,
                      !.matches = {}, !.locked = FALSE]
  IN { persistSwipeState(updateSwipeDeckVisibility(c2), FALSE)
       : c2 \in resetSwipeProgressAll(c1) }

\* confirmSwipeSetup up to its `await fetch`; the POST body is Snapshot(c)
\* taken after swipeLocked = true.
confirmSwipeSetup(c) ==
  LET c1 == [c EXCEPT !.likes = <<>>, !.matches = {}]
  IN UNION { { [c3 EXCEPT !.locked = TRUE]
               : c3 \in applySwipeProgress(c2, c2.currentPerson) }
             : c2 \in resetSwipeProgressAll(c1) }

\* loadSwipeFilteredList as it would be if it kept the fetched items whose
\* title a manual item already has
loadSwipeFilteredListKeepingAll(c, catalog) ==
  LET manual == SelectSeq(c.movies, LAMBDA m : m.source = "manual")
      autoList == [i \in 1..Len(catalog) |-> [title |-> catalog[i], source |-> "auto"]]
  IN UNION {
       UNION { { persistSwipeState(c3, FALSE) : c3 \in applySwipeProgress(c2, c2.currentPerson) }
               : c2 \in resetSwipeProgressAll(
                          [c EXCEPT !.movies = ms, !.likes = <<>>, !.matches = {}]) }
       : ms \in shuffleArray(manual \o autoList) }

\* loadSwipeFilteredList after fetchAndLoadMovies has settled; catalog is the
\* ranking movie list (titles) it left behind.
loadSwipeFilteredList(c, catalog) ==
  LET manual == SelectSeq(c.movies, LAMBDA m : m.source = "manual")
      existing == {manual[i].title : i \in 1..Len(manual)}
      autoAll == [i \in 1..Len(catalog) |-> [title |-> catalog[i], source |-> "auto"]]
      autoList == SelectSeq(autoAll, LAMBDA m : m.title \notin existing)
  IN UNION {
       UNION { { persistSwipeState(c3, FALSE) : c3 \in applySwipeProgress(c2, c2.currentPerson) }
               : c2 \in resetSwipeProgressAll(
                          [c EXCEPT !.movies = ms, !.likes = <<>>, !.matches = {}]) }
       : ms \in shuffleArray(manual \o autoList) }

\* the catch branch of sendSwipeDecision
sendSwipeDecisionFallback(c, decision, title, person) ==
  LET c1 == IF decision = "Ja" THEN recordSwipeLike(c, title, person)
            ELSE recordSwipeDislike(c, title, person)
      idx == Min(c1.currentIndex + 1, Len(c1.order))
      c2 == [c1 EXCEPT !.currentIndex = idx, !.completed = idx >= Len(c1.order)]
  IN saveSwipeProgress(c2, person)

\* ------------------------------------------------------------- the backend
\* Swipe Session Manager of the backend (its source is not part of the
\* frontend file): bulk replace, decide, confirm and reset.
EmptyServer ==
  [movies |-> <<>>, progress |-> <<>>, persons |-> <<"p1", "p2">>,
   likes |-> <<>>, matches |-> {}, locked |-> FALSE]

srvTitles(srv) == {srv.movies[i].title : i \in 1..Len(srv.movies)}

srvAccepts(srv, title, person) ==
  title \in srvTitles(srv) /\ Includes(srv.persons, person)

srvSwipeAction(srv, decision, title, person) ==
  LET cur == LikesOf(srv.likes, title)
      lst == IF decision = "Ja"
             THEN cur \cup {person}
             ELSE cur \ {person}
      matched == decision = "Ja" /\ Cardinality(lst) = Len(srv.persons)
      prog == IF person \in DOMAIN srv.progress
              THEN [srv.progress EXCEPT ![person] =
                      LET n == Min(@.idx + 1, Len(@.order))
                      IN [idx |-> n, done |-> n >= Len(@.order), order |-> @.order]]
              ELSE srv.progress
  IN [srv EXCEPT !.likes = SetLikes(srv.likes, title, lst),
                 !.matches = IF matched THEN @ \cup {title} ELSE @,
                 !.progress = prog]

srvSwipeConfirm(srv, body) ==
  IF srv.locked THEN srv ELSE [body EXCEPT !.locked = TRUE]

\* Requests POSTed by one handler are delivered or dropped independently:
\* the backend ends with its old state or with any one of the bodies.
Delivered(base, outbox) == {base} \cup SeqToSet(outbox)

\* ================================================================== ranker
\* ------------------------------------------------------------------ inputs
\* catalogs the backend can load (CSV file, Jellyfin query), voter counts of
\* numPersonsSelect, and the ids setDefaults / applyState give the voters
Catalogs == {<<"A">>, <<"A", "B">>, <<"A", "B", "C">>}
RankPersonInputs == {1, 2}
PersonIds == <<"person1", "person2">>
Null == <<>>
Undefined == "undefined"

\* a / b as JavaScript computes it, kept exact as a fraction
Frac(n, d) == [num |-> n, den |-> d]
\* r[f] ?? d  and  r[f] || d  for a field that is present or absent
Get(r, f, d) == IF f \in DOMAIN r THEN r[f] ELSE d

RCur ==
  [movies |-> movies, ratings |-> ratings, comparisonCount |-> comparisonCount,
   persons |-> persons, personCount |-> personCount, currentPerson |-> currentPerson,
   currentPair |-> currentPair, totalVotes |-> totalVotes,
   pairCoverage |-> pairCoverage, pairCoveragePerPerson |-> pairCoveragePerPerson,
   rankerConfirmed |-> rankerConfirmed, voteHidden |-> voteHidden,
   TS_SIGMA |-> TS_SIGMA]

\* movieByTitle[title]: undefined for a title outside the catalog
movieByTitle(c, title) == IF Includes(c.movies, title) THEN title ELSE Undefined

\* JSON values that parseFloat is given: a number, or a text that is none
Num(n) == [num |-> n]
Text == [text |-> "abc"]
NaN == [nan |-> TRUE]
parseFloat(v) == IF "num" \in DOMAIN v THEN v ELSE NaN
isNaN(v) == "nan" \in DOMAIN v

\* ensureTsRating(entry): sigma and the counters of an incoming rating (ts_mu
\* is not read by anything modelled here); tsSigma is TS_SIGMA
ensureTsRating(entry, tsSigma) ==
  LET sigma == parseFloat(Get(entry, "ts_sigma", Num(tsSigma)))
  IN [ts_sigma |-> IF isNaN(sigma) THEN tsSigma ELSE Max(sigma.num, SigmaFloor),
      games |-> Get(entry, "games", 0), wins |-> Get(entry, "wins", 0)]

coverageEntryKeepingRatio(entry, inferredTotalPairs) ==
  LET totalPairs == Get(entry, "totalPairs", inferredTotalPairs)
      covered == Get(entry, "coveredPairs", 0)
  IN [coveredPairs |-> covered, totalPairs |-> totalPairs,
      ratio |-> Get(entry, "ratio", Frac(0, 1))]

coverageEntryWithoutCovered(entry, inferredTotalPairs) ==
  LET totalPairs == Get(entry, "totalPairs", inferredTotalPairs)
  IN [coveredPairs |-> 0, totalPairs |-> totalPairs, ratio |-> Frac(0, 1)]

\* one coverage counter of applyState: entry is the incoming counter
coverageEntry(entry, inferredTotalPairs) ==
  LET totalPairs == Get(entry, "totalPairs", inferredTotalPairs)
      covered == Get(entry, "coveredPairs", 0)
  IN [coveredPairs |-> covered, totalPairs |-> totalPairs,
      ratio |-> IF totalPairs # 0 THEN Frac(covered, totalPairs) ELSE Frac(0, 1)]

ZeroCoverage == [coveredPairs |-> 0, totalPairs |-> 0, ratio |-> Frac(0, 1)]

\* both members of a pair are titles of a catalog
PairPresent(pair, catalog) ==
  pair # Null /\ \A k \in 1..2 : pair[k] # Undefined /\ Includes(catalog, pair[k])

pickPair(c) ==
  IF Len(c.movies) < 2 THEN {c}
  ELSE IF /\ c.currentPair # Null
          /\ c.currentPair[1] # Undefined /\ Includes(c.movies, c.currentPair[1])
          /\ c.currentPair[2] # Undefined /\ Includes(c.movies, c.currentPair[2])
       THEN {c}
  ELSE IF Cardinality(DOMAIN c.ratings) < 2 THEN {c}
  ELSE { [c EXCEPT !.currentPair = <<movieByTitle(c, a), movieByTitle(c, b)>>]
         : <<a, b>> \in {p \in (DOMAIN c.ratings) \X (DOMAIN c.ratings) : p[1] # p[2]} }

updateVoteVisibilityForcingPair(c, preservePair, skipPickPair) ==
  LET canShow == c.rankerConfirmed /\ Len(c.movies) >= 2
      c1 == [c EXCEPT !.voteHidden = ~canShow]
  IN IF ~canShow THEN {c1}
     ELSE pickPair([c1 EXCEPT !.currentPair = Null])

updateVoteVisibilityIgnoringConfirm(c, preservePair, skipPickPair) ==
  LET canShow == Len(c.movies) >= 2
      c1 == [c EXCEPT !.voteHidden = ~canShow]
      bothExist == PairPresent(c.currentPair, c.movies)
  IN IF ~canShow THEN {c1}
     ELSE IF skipPickPair THEN {c1}
     ELSE IF preservePair /\ bothExist THEN {c1}
     ELSE pickPair([c1 EXCEPT !.currentPair = Null])

updateVoteVisibility(c, preservePair, skipPickPair) ==
  LET canShow == c.rankerConfirmed /\ Len(c.movies) >= 2
      c1 == [c EXCEPT !.voteHidden = ~canShow]
      bothExist == /\ c.currentPair # Null
                   /\ c.currentPair[1] # Undefined /\ Includes(c.movies, c.currentPair[1])
                   /\ c.currentPair[2] # Undefined /\ Includes(c.movies, c.currentPair[2])
  IN IF ~canShow THEN {c1}
     ELSE IF skipPickPair THEN {c1}
     ELSE IF preservePair /\ bothExist THEN {c1}
     ELSE pickPair([c1 EXCEPT !.currentPair = Null])

applyState(c, state, preservePair, skipPickPair) ==
  LET ms == Get(state, "movies", <<>>)
      tsCfg == Get(state, "tsConfig", <<>>)
      tsSigma == IF ~isNaN(parseFloat(Get(tsCfg, "sigma", Null)))
                 THEN parseFloat(tsCfg.sigma).num ELSE c.TS_SIGMA
      incomingRatings == Get(state, "ratings", <<>>)
      normalizedRatings == [t \in SeqToSet(ms) \cup DOMAIN incomingRatings |->
                              ensureTsRating(Get(incomingRatings, t, <<>>), tsSigma)]
      incomingCount == Get(state, "comparisonCount", <<>>)
      pc == Max(1, Get(state, "personCount", 1))
      ps == [i \in 1..pc |-> PersonIds[i]]
      rawCoverage == Get(state, "pairCoverage", ZeroCoverage)
      inferredTotalPairs ==
        Get(rawCoverage, "totalPairs",
            IF Len(ms) > 1 THEN (Len(ms) * (Len(ms) - 1)) \div 2 ELSE 0)
      incomingPerPerson == Get(state, "pairCoveragePerPerson", <<>>)
      c1 == [c EXCEPT
               !.movies = ms,
               !.TS_SIGMA = tsSigma,
               !.ratings = normalizedRatings,
               !.comparisonCount =
                  [p \in DOMAIN incomingCount \cup SeqToSet(ps) |->
                     Get(incomingCount, p, 0)],
               !.personCount = pc,
               !.persons = ps,
               !.currentPerson = IF Includes(ps, c.currentPerson)
                                 THEN c.currentPerson ELSE ps[1],
               !.totalVotes = Get(state, "totalVotes", 0),
               !.pairCoverage = coverageEntry(rawCoverage, inferredTotalPairs),
               !.pairCoveragePerPerson =
                  [p \in DOMAIN incomingPerPerson \cup SeqToSet(ps) |->
                     IF Includes(ps, p)
                     THEN coverageEntry(
                            Get(incomingPerPerson, p,
                                [coveredPairs |-> 0, totalPairs |-> inferredTotalPairs,
                                 ratio |-> Frac(0, 1)]),
                            inferredTotalPairs)
                     ELSE incomingPerPerson[p]],
               !.rankerConfirmed = Get(state, "rankerConfirmed", FALSE)]
  IN updateVoteVisibility(c1, preservePair, skipPickPair)

\* the catch branch of fetchState
fetchStateFailed(c, preservePair, skipPickPair) ==
  { [c2 EXCEPT !.voteHidden = TRUE]
    : c2 \in updateVoteVisibility([c EXCEPT !.rankerConfirmed = FALSE],
                                  preservePair, skipPickPair) }

\* vote(winnerIndex) up to its fetch: the body of POST /vote
voteRequestSwapped(c, winnerIndex) ==
  [winner |-> IF winnerIndex = 0 THEN c.currentPair[2] ELSE c.currentPair[1],
   loser |-> IF winnerIndex = 0 THEN c.currentPair[1] ELSE c.currentPair[2],
   person |-> c.currentPerson]

voteRequest(c, winnerIndex) ==
  [winner |-> IF winnerIndex = 0 THEN c.currentPair[1] ELSE c.currentPair[2],
   loser |-> IF winnerIndex = 0 THEN c.currentPair[2] ELSE c.currentPair[1],
   person |-> c.currentPerson]

\* the catch branch of vote: a status line, nothing else
voteFailedDroppingPair(c) == [c EXCEPT !.currentPair = Null]

voteFailed(c) == c

\* onApplyPersons up to its branch on movies.length
onApplyPersons(c, requested) ==
  LET pc == Max(1, requested)
      ps == [i \in 1..pc |-> PersonIds[i]]
      c1 == [c EXCEPT !.personCount = pc, !.persons = ps]
  IN IF Len(c.movies) = 0
     THEN [c1 EXCEPT !.comparisonCount = [p \in SeqToSet(ps) |-> 0],
                     !.currentPerson = ps[1],
                     !.pairCoverage = ZeroCoverage,
                     !.pairCoveragePerPerson = [p \in SeqToSet(ps) |-> ZeroCoverage]]
     ELSE c1

\* ----------------------------------------------------- the ranking backend
\* Rating Store, Coverage Tracker and confirmed flag of the backend (its
\* source is not part of the frontend file).
EmptyRankServer ==
  [movies |-> <<>>, ratings |-> <<>>, comparisonCount |-> [p \in {"person1"} |-> 0],
   totalVotes |-> 0, personCount |-> 1, covered |-> {},
   coveredBy |-> [p \in {"person1"} |-> {}], rankerConfirmed |-> FALSE]

srvPersons(n) == {PersonIds[i] : i \in 1..n}

srvCoverage(pairs, n) ==
  LET total == (n * (n - 1)) \div 2
  IN [coveredPairs |-> Cardinality(pairs), totalPairs |-> total,
      ratio |-> IF total > 0 THEN Frac(Cardinality(pairs), total) ELSE Frac(0, 1)]

srvRankSnapshot(srv) ==
  [movies |-> srv.movies,
   ratings |-> [t \in DOMAIN srv.ratings |->
                  [games |-> srv.ratings[t].games, wins |-> srv.ratings[t].wins,
                   ts_sigma |-> Num(DefaultTsSigma)]],
   comparisonCount |-> srv.comparisonCount, personCount |-> srv.personCount,
   totalVotes |-> srv.totalVotes,
   pairCoverage |-> srvCoverage(srv.covered, Len(srv.movies)),
   pairCoveragePerPerson |->
     [p \in DOMAIN srv.coveredBy |-> srvCoverage(srv.coveredBy[p], Len(srv.movies))],
   rankerConfirmed |-> srv.rankerConfirmed]

srvRankReset(srv, items, n) ==
  [movies |-> items,
   ratings |-> [t \in SeqToSet(items) |-> [games |-> 0, wins |-> 0]],
   comparisonCount |-> [p \in srvPersons(n) |-> 0],
   totalVotes |-> 0, personCount |-> n, covered |-> {},
   coveredBy |-> [p \in srvPersons(n) |-> {}],
   rankerConfirmed |-> FALSE]

srvLoadCatalog(srv, items) == srvRankReset(srv, items, srv.personCount)

srvResetRank(srv, n) == srvRankReset(srv, srv.movies, n)

srvVoteAccepts(srv, req) ==
  /\ Includes(srv.movies, req.winner)
  /\ Includes(srv.movies, req.loser)
  /\ req.winner # req.loser
  /\ req.person \in srvPersons(srv.personCount)

srvVote(srv, req) ==
  [srv EXCEPT
     !.ratings = [t \in DOMAIN @ |->
                    [games |-> IF t \in {req.winner, req.loser}
                               THEN @[t].games + 1 ELSE @[t].games,
                     wins |-> IF t = req.winner THEN @[t].wins + 1 ELSE @[t].wins]],
     !.comparisonCount = [@ EXCEPT ![req.person] = @ + 1],
     !.totalVotes = @ + 1,
     !.covered = @ \cup {{req.winner, req.loser}},
     !.coveredBy = [@ EXCEPT ![req.person] = @ \cup {{req.winner, req.loser}}]]

\* confirmRank requires at least two items
srvConfirmAccepts(srv) == Len(srv.movies) >= 2

srvRankConfirm(srv) == [srv EXCEPT !.rankerConfirmed = TRUE]

\* The JSON a snapshot arrives as: complete, or without the fields that
\* applyState has a default for, or with a ratio the backend computed
\* otherwise.
Shapes == {"full", "noCoverage", "noTotalPairs", "noPerPerson", "otherRatio"}

\* the ts_sigma of the ratings or the tsConfig.sigma a snapshot can carry
\* instead of a positive number
BeliefShapes == {"sigmaMissing", "sigmaText", "sigmaZero", "sigmaNegative",
                 "configZero", "configNegative", "configText"}

\* a snapshot whose ratings hold a title that its movie list lacks
RatingShapes == {"extraRating"}

Without(r, fs) == [f \in DOMAIN r \ fs |-> r[f]]
With(r, f, v) == [g \in DOMAIN r \cup {f} |-> IF g = f THEN v ELSE r[g]]

Shaped(snap, shape) ==
  CASE shape = "noCoverage" -> Without(snap, {"pairCoverage", "pairCoveragePerPerson"})
    [] shape = "noPerPerson" -> Without(snap, {"pairCoveragePerPerson"})
    [] shape = "noTotalPairs" ->
         [snap EXCEPT !.pairCoverage = Without(@, {"totalPairs"}),
                      !.pairCoveragePerPerson =
                         [p \in DOMAIN @ |-> Without(@[p], {"totalPairs"})]]
    [] shape = "otherRatio" ->
         [snap EXCEPT !.pairCoverage = [@ EXCEPT !.ratio = Frac(1, 2)],
                      !.pairCoveragePerPerson =
                         [p \in DOMAIN @ |-> [@[p] EXCEPT !.ratio = Frac(1, 2)]]]
    [] shape = "sigmaMissing" ->
         [snap EXCEPT !.ratings = [t \in DOMAIN @ |-> Without(@[t], {"ts_sigma"})]]
    [] shape = "sigmaText" ->
         [snap EXCEPT !.ratings = [t \in DOMAIN @ |-> [@[t] EXCEPT !.ts_sigma = Text]]]
    [] shape = "sigmaZero" ->
         [snap EXCEPT !.ratings = [t \in DOMAIN @ |-> [@[t] EXCEPT !.ts_sigma = Num(0)]]]
    [] shape = "sigmaNegative" ->
         [snap EXCEPT !.ratings = [t \in DOMAIN @ |-> [@[t] EXCEPT !.ts_sigma = Num(-1)]]]
    [] shape = "configZero" -> With(snap, "tsConfig", [sigma |-> Num(0)])
    [] shape = "configNegative" -> With(snap, "tsConfig", [sigma |-> Num(-1)])
    [] shape = "configText" -> With(snap, "tsConfig", [sigma |-> Text])
    [] shape = "extraRating" ->
         [snap EXCEPT !.ratings =
            With(@, "Z", [ts_sigma |-> Num(DefaultTsSigma), games |-> 0, wins |-> 0])]
    [] OTHER -> snap

\* the answer to a ranking request: the snapshot the backend held when it
\* handled the request
Answer(kind, ok, srv) ==
  [kind |-> kind, ok |-> ok, state |-> srvRankSnapshot(srv)]

\* history: the last ranker step, the index a vote click passed, and the shape
\* of the snapshot that applyState was given
ROp(name, idx) == [op |-> name, idx |-> idx, shape |-> ""]
Applied(name, shape) == [op |-> name, idx |-> -1, shape |-> shape]

SetRank(c) ==
  /\ movies' = c.movies
  /\ ratings' = c.ratings
  /\ comparisonCount' = c.comparisonCount
  /\ persons' = c.persons
  /\ personCount' = c.personCount
  /\ currentPerson' = c.currentPerson
  /\ currentPair' = c.currentPair
  /\ totalVotes' = c.totalVotes
  /\ pairCoverage' = c.pairCoverage
  /\ pairCoveragePerPerson' = c.pairCoveragePerPerson
  /\ rankerConfirmed' = c.rankerConfirmed
  /\ voteHidden' = c.voteHidden
  /\ TS_SIGMA' = c.TS_SIGMA

\* setDefaults, and fetchState(true, { allowCsvFallback: true }) under way
RankInit ==
  /\ movies = <<>>
  /\ ratings = <<>>
  /\ comparisonCount = [p \in {"person1"} |-> 0]
  /\ persons = <<"person1">>
  /\ personCount = 1
  /\ currentPerson = "person1"
  /\ currentPair = Null
  /\ totalVotes = 0
  /\ pairCoverage = ZeroCoverage
  /\ pairCoveragePerPerson = [p \in {"person1"} |-> ZeroCoverage]
  /\ rankerConfirmed = FALSE
  /\ voteHidden = TRUE
  /\ TS_SIGMA = DefaultTsSigma
  /\ rankServer = EmptyRankServer
  /\ rankInFlight = <<Answer("init", backend = "up", EmptyRankServer)>>
  /\ rankOp = ROp("init", -1)

\* ------------------------------------------------------------------- steps
Op(name, title, person) == [op |-> name, title |-> title, person |-> person]

SetClient(c) ==
  /\ swipeSelectedMovies' = c.movies
  /\ swipeLikes' = c.likes
  /\ swipeMatches' = c.matches
  /\ swipePersonCount' = c.personCount
  /\ swipePersons' = c.persons
  /\ swipeCurrentPerson' = c.currentPerson
  /\ swipeCurrentIndex' = c.currentIndex
  /\ swipeOrder' = c.order
  /\ swipeCompleted' = c.completed
  /\ swipeProgress' = c.progress
  /\ swipeLocked' = c.locked
  /\ swipeStateReadyToPersist' = c.ready
  /\ matchQueue' = c.matchQueue
  /\ seenMatches' = c.seenMatches
  /\ matchModalOpen' = c.modalOpen
  /\ deckHidden' = c.deckHidden
  /\ shown' = c.shown

\* End of a synchronous handler: the client state is c, the bodies it POSTed
\* reach the backend or not.
Commit(c, base) ==
  /\ Len(c.matchQueue) <= MaxQueue
  /\ SetClient(c)
  /\ server' \in (IF backend = "up" THEN Delivered(base, c.outbox) ELSE {server})
  /\ UNCHANGED backend

\* The page as bindEvents leaves it, the backend holding the session srv
InitClientWith(srv) ==
  /\ pending = <<>>
  /\ polls = <<>>
  /\ server = srv
  /\ shown = [t \in Titles |-> 0]
  /\ lastOp = Op("init", "", "")
  /\ \E c \in setSwipePersons(
         [movies |-> <<>>, likes |-> <<>>, matches |-> {}, personCount |-> 2,
          persons |-> <<>>, currentPerson |-> "p1", currentIndex |-> 0,
          order |-> <<>>, completed |-> FALSE, progress |-> <<>>,
          locked |-> FALSE, ready |-> FALSE, matchQueue |-> <<>>,
          seenMatches |-> {}, modalOpen |-> FALSE, deckHidden |-> TRUE,
          shown |-> [t \in Titles |-> 0], outbox |-> <<>>], 2) :
       /\ swipeSelectedMovies = c.movies
       /\ swipeLikes = c.likes
       /\ swipeMatches = c.matches
       /\ swipePersonCount = c.personCount
       /\ swipePersons = c.persons
       /\ swipeCurrentPerson = c.currentPerson
       /\ swipeCurrentIndex = c.currentIndex
       /\ swipeOrder = c.order
       /\ swipeCompleted = c.completed
       /\ swipeProgress = c.progress
       /\ swipeLocked = c.locked
       /\ swipeStateReadyToPersist = c.ready
       /\ matchQueue = c.matchQueue
       /\ seenMatches = c.seenMatches
       /\ matchModalOpen = c.modalOpen
       /\ deckHidden = c.deckHidden

InitClient == InitClientWith(EmptyServer)

\* ------------------------------------------------------- the configuration
\* JSON values: numbers are Num(n), strings are sequences of characters,
\* arrays and objects map their keys to values
Str(chars) == [str |-> chars]
JsNull == [null |-> TRUE]
JsUndefined == [undef |-> TRUE]
Obj(fields) == [obj |-> fields]
EmptyObject == Obj(<<>>)
IndexKeys == <<"0", "1", "2", "3", "4", "5", "6", "7", "8", "9">>
Arr(items) ==
  [arr |-> [k \in {IndexKeys[i] : i \in 1..Len(items)} |->
              items[CHOOSE i \in 1..Len(items) : IndexKeys[i] = k]]]

IsArray(v) == "arr" \in DOMAIN v
\* val && typeof val === 'object' && !Array.isArray(val)
IsPlainObject(v) == "obj" \in DOMAIN v
\* the truthiness of a value
Truthy(v) ==
  CASE "num" \in DOMAIN v -> v.num # 0
    [] "str" \in DOMAIN v -> v.str # <<>>
    [] "obj" \in DOMAIN v -> TRUE
    [] "arr" \in DOMAIN v -> TRUE
    [] OTHER -> FALSE
\* Object.entries(v)
Entries(v) ==
  IF IsPlainObject(v) THEN v.obj ELSE IF IsArray(v) THEN v.arr ELSE <<>>
\* { ...v }: the own enumerable properties; a string spreads into its characters
Spread(v) ==
  IF "str" \in DOMAIN v
  THEN [k \in {IndexKeys[i] : i \in 1..Len(v.str)} |->
          Str(<<v.str[CHOOSE i \in 1..Len(v.str) : IndexKeys[i] = k]>>)]
  ELSE Entries(v)
\* v[key]
Prop(v, key) == Get(Spread(v), key, JsUndefined)

\* the built-in appConfig
DefaultConfig ==
  Obj([api |-> Obj([base |-> Str(<<>>), port |-> Num(5000)]),
       ui |-> Obj([defaultTab |-> Str(<<"r", "a", "n", "k", "e", "r">>)]),
       ranker |-> Obj([defaultFilters |->
                         Arr(<<Str(<<"I", "s", "U", "n", "p", "l", "a", "y", "e", "d">>),
                               Str(<<"I", "s", "P", "l", "a", "y", "e", "d">>)>>),
                       include4k |-> [bool |-> FALSE],
                       runtime |-> Obj([min |-> Num(20), max |-> Num(300)]),
                       critic |-> Obj([min |-> Num(0), max |-> Num(10),
                                       step |-> Num(Frac(1, 10))]),
                       year |-> Obj([min |-> Num(1950),
                                     max |-> Str(<<"c", "u", "r", "r", "e", "n", "t">>)]),
                       defaultR |-> Num(2)]),
       swipe |-> Obj([defaultFilters |->
                        Arr(<<Str(<<"I", "s", "U", "n", "p", "l", "a", "y", "e", "d">>),
                              Str(<<"I", "s", "P", "l", "a", "y", "e", "d">>)>>),
                      include4k |-> [bool |-> FALSE],
                      runtime |-> Obj([min |-> Num(20), max |-> Num(300)]),
                      critic |-> Obj([min |-> Num(0), max |-> Num(10),
                                      step |-> Num(Frac(1, 10))]),
                      year |-> Obj([min |-> Num(1950),
                                    max |-> Str(<<"c", "u", "r", "r", "e", "n", "t">>)]),
                      pollMs |-> Num(5000)])])

RECURSIVE mergeConfig(_, _)
mergeConfig(base, incoming) ==
  IF ~Truthy(incoming) \/ ~(IsPlainObject(incoming) \/ IsArray(incoming)) THEN base
  ELSE LET out == Spread(base)
           inc == Entries(incoming)
           merged == [key \in DOMAIN out \cup DOMAIN inc |->
                        IF key \in DOMAIN inc
                        THEN IF IsPlainObject(inc[key])
                             THEN mergeConfig(IF Truthy(base) THEN Prop(base, key)
                                              ELSE EmptyObject,
                                              inc[key])
                             ELSE inc[key]
                        ELSE out[key]]
       IN IF IsArray(base) THEN [arr |-> merged] ELSE Obj(merged)

\* what the request for config/client.json can give: the parsed file, an
\* error status, a rejected fetch, or a body that is not JSON
Parsed(data) == [kind |-> "ok", data |-> data]
NotLoadable == {[kind |-> "status"], [kind |-> "rejected"], [kind |-> "notJson"]}

\* loadAppConfig as it would be if it took the file in place of the defaults
loadAppConfigReplacing(cfg, answer) ==
  IF answer.kind = "ok"
  THEN IF Truthy(answer.data) THEN answer.data ELSE EmptyObject
  ELSE cfg

\* loadAppConfig up to its finally block
loadAppConfig(cfg, answer) ==
  IF answer.kind = "ok"
  THEN mergeConfig(cfg, IF Truthy(answer.data) THEN answer.data ELSE EmptyObject)
  ELSE cfg

\* the files tried: objects over known and unknown keys, two levels deep,
\* holding numbers, strings, null, arrays and objects, and files that are
\* no object at all
ConfigLeaves == {Num(0), Str(<<"x">>), JsNull, Arr(<<Num(1)>>)}
ObjectsOver(keySets, values) == {Obj(f) : f \in UNION {[S -> values] : S \in keySets}}
InnerObjects == {EmptyObject, Obj([min |-> Num(7)]), Obj([step |-> Num(7)])}
NestedKeySets == {{}, {"port"}, {"runtime"}, {"defaultTab"}, {"port", "runtime"}}
TopKeySets == {{}, {"api"}, {"ranker"}, {"ui"}, {"api", "ranker"}, {"ranker", "ui"}}
NestedObjects == ObjectsOver(NestedKeySets, ConfigLeaves \cup InnerObjects)
ClientFiles == ObjectsOver(TopKeySets, ConfigLeaves \cup NestedObjects) \cup ConfigLeaves

ConfigInit ==
  /\ appConfig = DefaultConfig
  /\ configAnswer = [kind |-> "none"]

\* init: await loadAppConfig()
LoadAppConfig(answer) ==
  /\ configAnswer.kind = "none"
  /\ appConfig' = loadAppConfig(appConfig, answer)
  /\ configAnswer' = answer
  /\ UNCHANGED <<swipeVars, backend, rankVars, uiVars>>

\* ------------------------------------------------------------- the dialogs
\* the value of pendingConfirmAction when no function is pending (null)
NoAction == "null"

\* closeConfirm of setupConfirmModal as it would be if it only hid the overlay
closeConfirmKeepingAction(action) == action

\* closeConfirm: the value it leaves in pendingConfirmAction
closeConfirm(action) == NoAction

\* the buttons gamepadFrame polls, by their names in GAMEPAD_BUTTONS
Buttons == {"A", "B", "START", "DPAD_UP", "DPAD_DOWN", "DPAD_LEFT", "DPAD_RIGHT"}

\* gamepadPrevButtons = []: every entry reads as not pressed
NoButtons == [b \in Buttons |-> FALSE]

UiInit ==
  /\ pendingConfirmAction = NoAction
  /\ confirmHidden = TRUE
  /\ csvFallbackAttempted = FALSE
  /\ csvCalls = 0
  /\ gamepadPrevButtons = NoButtons
  /\ settingsHidden = TRUE
  /\ padPressed = {}
  /\ padEdges = {}

Init == backend = "error" /\ InitClient /\ RankInit /\ ConfigInit /\ UiInit

InitNet == backend = "up" /\ InitClient /\ RankInit /\ ConfigInit /\ UiInit

\* applySwiperPersonsBtn click
SetSwipePersons(n) ==
  /\ \E c \in setSwipePersons(Cur, n) : Commit(c, server)
  /\ lastOp' = [op |-> "setSwipePersons", title |-> "", person |-> "", n |-> n]
  /\ UNCHANGED <<pending, polls, rankVars, cfgVars, uiVars>>

\* click on a voter button of renderSwiperPersonButtons
SwitchPerson(p) ==
  /\ Includes(swipePersons, p)
  /\ \E c \in applySwipeProgress(
                [saveSwipeProgress(Cur, swipeCurrentPerson) EXCEPT !.currentPerson = p], p) :
        Commit(persistSwipeState(c, FALSE), server)
  /\ lastOp' = Op("switchPerson", "", "")
  /\ UNCHANGED <<pending, polls, rankVars, cfgVars, uiVars>>

\* addSwipeFromInput / click on a suggestion; a title already listed returns early
AddSwipeMovie(title) ==
  IF title \in TitleSet(Cur) THEN UNCHANGED vars
  ELSE /\ \E c \in addSwipeMovie(Cur, title) : Commit(c, server)
       /\ lastOp' = Op("addSwipeMovie", title, "")
       /\ UNCHANGED <<pending, polls, rankVars, cfgVars, uiVars>>

\* click on the x of a listed movie
RemoveSwipeMovie(title) ==
  /\ title \in TitleSet(Cur)
  /\ \E c \in removeSwipeMovie(Cur, title) : Commit(c, server)
  /\ lastOp' = Op("removeSwipeMovie", title, "")
  /\ UNCHANGED <<pending, polls, rankVars, cfgVars, uiVars>>

\* performClearSwipeList as OK of the prompt calls it
ClearListEffect ==
  /\ \E c \in performClearSwipeList(Cur) : Commit(c, server)
  /\ lastOp' = Op("performClearSwipeList", "", "")
  /\ UNCHANGED <<pending, polls, rankVars, cfgVars, settingsHidden>>

\* click on swClearListBtn and OK of its prompt
PerformClearSwipeList == ClearListEffect /\ UNCHANGED <<dialogVars, csvVars, padRest>>

ConfirmSwipeSetup ==
  /\ \E c \in confirmSwipeSetup(Cur) :
       \* the lines after `await fetch` run unless fetch rejects; the
       \* response status is not looked at
       /\ SetClient(IF backend = "unreachable" THEN c ELSE updateSwipeDeckVisibility(c))
       /\ server' = IF backend = "up" THEN srvSwipeConfirm(server, Snapshot(c)) ELSE server
  /\ lastOp' = Op("confirmSwipeSetup", "", "")
  /\ UNCHANGED <<pending, backend, polls, rankVars, cfgVars, uiVars>>

LoadSwipeFilteredList(catalog) ==
  /\ \E c \in loadSwipeFilteredList(Cur, catalog) : Commit(c, server)
  /\ lastOp' = Op("loadSwipeFilteredList", "", "")
  /\ UNCHANGED <<pending, polls, rankVars, cfgVars, uiVars>>

CloseMatchModal ==
  /\ matchModalOpen
  /\ Commit(closeMatchModal(Cur), server)
  /\ lastOp' = Op("closeMatchModal", "", "")
  /\ UNCHANGED <<pending, polls, rankVars, cfgVars, uiVars>>

\* OK of the reset-all prompt: POST /reset-all, then the ranking defaults of
\* the answer, the swipe defaults and a forced persist; a failed request
\* changes nothing.
resetAllStates(c) ==
  persistSwipeState(
    updateSwipeDeckVisibility(
      [c EXCEPT !.movies = <<>>, !.likes = <<>>, !.matches = {}, !.progress = <<>>,
                !.locked = FALSE, !.completed = FALSE, !.currentIndex = 0]),
    TRUE)

ResetAllEffect ==
  /\ backend = "up"
  /\ Commit(resetAllStates(Cur), [EmptyServer EXCEPT !.persons = server.persons])
  /\ \E rc \in applyState([RCur EXCEPT !.rankerConfirmed = FALSE],
                          srvRankSnapshot(EmptyRankServer),
                          FALSE, FALSE) : SetRank(rc)
  /\ rankServer' = EmptyRankServer
  /\ rankOp' = Applied("resetAllOk", "full")
  /\ lastOp' = Op("resetAllStates", "", "")
  /\ settingsHidden' = TRUE
  /\ UNCHANGED <<pending, polls, rankInFlight, cfgVars>>

\* click on resetAllBtn and OK of its prompt
ResetAllStates == ResetAllEffect /\ UNCHANGED <<dialogVars, csvVars, padRest>>

\* the steps of the confirm modal one by one. openConfirmModal: click on
\* swClearListBtn (performClearSwipeList) or on resetAllBtn (the function of
\* resetAllStates)
ConfirmActions == {"performClearSwipeList", "resetAllStates"}

OpenConfirmModal(action) ==
  /\ pendingConfirmAction' = action
  /\ confirmHidden' = FALSE
  /\ lastOp' = Op("openConfirmModal", "", "")
  /\ UNCHANGED <<swipeSelectedMovies, swipeLikes, swipeMatches, swipePersonCount,
                 swipePersons, swipeCurrentPerson, swipeCurrentIndex, swipeOrder,
                 swipeCompleted, swipeProgress, swipeLocked, swipeStateReadyToPersist,
                 matchQueue, seenMatches, matchModalOpen, deckHidden, pending, server,
                 backend, shown, polls, rankVars, cfgVars, csvVars, padVars>>

\* click on confirmCancel or on the overlay
ConfirmCancel ==
  /\ ~confirmHidden
  /\ pendingConfirmAction' = closeConfirm(pendingConfirmAction)
  /\ confirmHidden' = TRUE
  /\ lastOp' = Op("confirmCancel", "", "")
  /\ UNCHANGED <<swipeSelectedMovies, swipeLikes, swipeMatches, swipePersonCount,
                 swipePersons, swipeCurrentPerson, swipeCurrentIndex, swipeOrder,
                 swipeCompleted, swipeProgress, swipeLocked, swipeStateReadyToPersist,
                 matchQueue, seenMatches, matchModalOpen, deckHidden, pending, server,
                 backend, shown, polls, rankVars, cfgVars, csvVars, padVars>>

\* click on confirmOk: the pending function is read, closeConfirm runs, then
\* the function if there is one; POST /reset-all that fails changes nothing
ConfirmOk ==
  /\ pendingConfirmAction' = closeConfirm(pendingConfirmAction)
  /\ confirmHidden' = TRUE
  /\ IF pendingConfirmAction = "performClearSwipeList" THEN ClearListEffect
     ELSE IF pendingConfirmAction = "resetAllStates" /\ backend = "up" THEN ResetAllEffect
     ELSE /\ lastOp' = Op(IF pendingConfirmAction = NoAction
                           THEN "confirmOk" ELSE "resetAllFailed", "", "")
          /\ UNCHANGED <<swipeSelectedMovies, swipeLikes, swipeMatches, swipePersonCount,
                         swipePersons, swipeCurrentPerson, swipeCurrentIndex, swipeOrder,
                         swipeCompleted, swipeProgress, swipeLocked,
                         swipeStateReadyToPersist, matchQueue, seenMatches,
                         matchModalOpen, deckHidden, pending, server, backend, shown,
                         polls, rankVars, cfgVars, settingsHidden>>
  /\ UNCHANGED <<csvVars, padRest>>

\* decide(decision) up to its setTimeout: the title is read now, the voter
\* when the timer fires.
DecideUpTo(decision, limit) ==
  /\ ~deckHidden
  /\ ~swipeCompleted
  /\ Len(swipeOrder) > 0 /\ Len(swipeSelectedMovies) > 0
  /\ swipeCurrentIndex < Len(swipeOrder)
  /\ Len(pending) < limit
  /\ pending' = Append(pending, [stage |-> "timer", decision |-> decision,
                                 title |-> swipeOrder[swipeCurrentIndex + 1],
                                 person |-> ""])
  /\ lastOp' = Op("decide", "", "")
  /\ UNCHANGED <<swipeSelectedMovies, swipeLikes, swipeMatches, swipePersonCount,
                 swipePersons, swipeCurrentPerson, swipeCurrentIndex, swipeOrder,
                 swipeCompleted, swipeProgress, swipeLocked, swipeStateReadyToPersist,
                 matchQueue, seenMatches, matchModalOpen, deckHidden, server, backend, shown,
                 polls, rankVars, cfgVars, uiVars>>

Decide(decision) == DecideUpTo(decision, MaxPending)

\* the 250 ms timer of decide: sendSwipeDecision(decision, title, swipeCurrentPerson)
DecideTimer(i) ==
  /\ i \in 1..Len(pending)
  /\ pending[i].stage = "timer"
  /\ \A j \in 1..(i - 1) : pending[j].stage # "timer"
  /\ pending' = [pending EXCEPT ![i] = [@ EXCEPT !.stage = "sent",
                                                 !.person = swipeCurrentPerson]]
  /\ lastOp' = Op("sendSwipeDecision", "", "")
  /\ UNCHANGED <<swipeSelectedMovies, swipeLikes, swipeMatches, swipePersonCount,
                 swipePersons, swipeCurrentPerson, swipeCurrentIndex, swipeOrder,
                 swipeCompleted, swipeProgress, swipeLocked, swipeStateReadyToPersist,
                 matchQueue, seenMatches, matchModalOpen, deckHidden, server, backend, shown,
                 polls, rankVars, cfgVars, uiVars>>

\* /swipe-action answered ok: the try branch of sendSwipeDecision
SwipeActionOk(i) ==
  /\ i \in 1..Len(pending)
  /\ pending[i].stage = "sent"
  /\ backend = "up"
  /\ srvAccepts(server, pending[i].title, pending[i].person)
  /\ LET srv == srvSwipeAction(server, pending[i].decision, pending[i].title, pending[i].person)
     IN /\ \E c \in applySwipeStateFromServer(Cur, srv) : Commit(c, srv)
        /\ lastOp' = Op("swipeActionOk", pending[i].title, pending[i].person)
  /\ pending' = RemoveAt(pending, i)
  /\ polls' = MarkStale(polls, Len(polls))
  /\ UNCHANGED rankVars

\* /swipe-action rejected, unreachable or its answer lost: the catch branch
SwipeActionFail(i) ==
  /\ i \in 1..Len(pending)
  /\ pending[i].stage = "sent"
  /\ backend = "up" => ~srvAccepts(server, pending[i].title, pending[i].person)
  /\ LET r == pending[i]
     IN /\ Commit(sendSwipeDecisionFallback(Cur, r.decision, r.title, r.person), server)
        /\ lastOp' = Op(IF r.decision = "Ja" THEN "likeFallback" ELSE "dislikeFallback",
                        r.title, r.person)
  /\ pending' = RemoveAt(pending, i)
  /\ UNCHANGED <<polls, rankVars, cfgVars, uiVars>>

\* loadSwipeStateFromServer up to its fetch (page load and every poll): the
\* answer carries the state the backend held when it handled the request
SwipeStateRequest ==
  /\ Len(polls) < MaxInFlight
  /\ polls' = Append(polls, [ok |-> backend = "up", state |-> server, stale |-> FALSE])
  /\ lastOp' = Op("swipeStateRequest", "", "")
  /\ UNCHANGED <<swipeSelectedMovies, swipeLikes, swipeMatches, swipePersonCount,
                 swipePersons, swipeCurrentPerson, swipeCurrentIndex, swipeOrder,
                 swipeCompleted, swipeProgress, swipeLocked, swipeStateReadyToPersist,
                 matchQueue, seenMatches, matchModalOpen, deckHidden, pending, server,
                 backend, shown, rankVars, cfgVars, uiVars>>

\* GET /swipe-state answered or failed: the rest of loadSwipeStateFromServer.
\* Answers are applied in the order they arrive, whatever the order of the
\* requests.
LoadSwipeStateFromServer(i) ==
  /\ i \in 1..Len(polls)
  /\ LET r == polls[i]
     IN /\ IF r.ok
           THEN \E c \in applySwipeStateFromServer(Cur, r.state) :
                  Commit([c EXCEPT !.ready = TRUE], server)
           ELSE Commit([Cur EXCEPT !.ready = TRUE], server)
        /\ lastOp' = Op(IF r.ok /\ r.stale THEN "staleSwipeState"
                        ELSE "loadSwipeStateFromServer", "", "")
        /\ polls' = IF r.ok THEN MarkStale(RemoveAt(polls, i), i - 1)
                    ELSE RemoveAt(polls, i)
  /\ UNCHANGED <<pending, rankVars, cfgVars, uiVars>>

\* a decision of another device accepted by the backend
RemoteSwipeAction(decision, title, person) ==
  /\ backend = "up"
  /\ srvAccepts(server, title, person)
  /\ server' = srvSwipeAction(server, decision, title, person)
  /\ server' # server
  /\ lastOp' = Op("remoteSwipeAction", "", "")
  /\ UNCHANGED <<swipeSelectedMovies, swipeLikes, swipeMatches, swipePersonCount,
                 swipePersons, swipeCurrentPerson, swipeCurrentIndex, swipeOrder,
                 swipeCompleted, swipeProgress, swipeLocked, swipeStateReadyToPersist,
                 matchQueue, seenMatches, matchModalOpen, deckHidden, pending, backend, shown,
                 polls, rankVars, cfgVars, uiVars>>

\* the backend starts or stops answering
BackendChanges(b) ==
  /\ b # backend
  /\ backend' = b
  /\ lastOp' = Op("backendChanges", "", "")
  /\ UNCHANGED <<swipeSelectedMovies, swipeLikes, swipeMatches, swipePersonCount,
                 swipePersons, swipeCurrentPerson, swipeCurrentIndex, swipeOrder,
                 swipeCompleted, swipeProgress, swipeLocked, swipeStateReadyToPersist,
                 matchQueue, seenMatches, matchModalOpen, deckHidden, pending, server,
                 shown, polls, rankVars, cfgVars, uiVars>>

\* ----------------------------------------------------------- the controller
\* gp is the set of buttons whose `pressed` is true in the frame.
\* wasButtonPressed: the value it returns
wasButtonPressed(prev, gp, b) == b \in gp /\ ~prev[b]

\* wasButtonPressed: gamepadPrevButtons after the buttons in polled were
\* looked at
PrevAfter(prev, gp, polled) ==
  [b \in Buttons |-> IF b \in polled THEN b \in gp ELSE prev[b]]

\* the buttons gamepadFrame looks at in every frame; B is looked at only
\* while the settings are open (settingsOpen && wasButtonPressed(B))
PolledAlways == Buttons \ {"B"}

\* clickFocused clicks the element that has the focus; of what the click can
\* do only the settings overlay matters to the frame: openModal, closeModal
\* or neither
clickFocused(hidden) == BOOLEAN

\* one frame with a controller connected
GamepadFrame(gp) ==
  \E afterClick \in IF wasButtonPressed(gamepadPrevButtons, gp, "A")
                     THEN clickFocused(settingsHidden) ELSE {settingsHidden} :
    LET settingsOpen == ~afterClick
        start == wasButtonPressed(gamepadPrevButtons, gp, "START")
        polled == IF settingsOpen THEN Buttons ELSE PolledAlways
        edges == {b \in polled : wasButtonPressed(gamepadPrevButtons, gp, b)}
    IN /\ gamepadPrevButtons' = PrevAfter(gamepadPrevButtons, gp, polled)
       /\ settingsHidden' = IF "B" \in edges THEN TRUE
                             ELSE IF start THEN FALSE
                             ELSE afterClick
       /\ padPressed' = gp
       /\ padEdges' = edges
       /\ UNCHANGED <<swipeVars, backend, rankVars, cfgVars, dialogVars, csvVars>>

\* one frame without a controller: gamepadPrevButtons = []
NoGamepadFrame ==
  /\ gamepadPrevButtons' = NoButtons
  /\ padPressed' = {}
  /\ padEdges' = {}
  /\ UNCHANGED <<swipeVars, backend, rankVars, cfgVars, dialogVars, csvVars, settingsHidden>>

\* click on settingsBtn (openModal) or on settingsClose / settingsCancel
\* (closeModal)
ToggleSettings ==
  /\ settingsHidden' = ~settingsHidden
  /\ UNCHANGED <<swipeVars, backend, rankVars, cfgVars, dialogVars, csvVars, padRest>>

\* ------------------------------------------------------------ specifications
\* Spec: one device whose backend answers every request with an error
\* status, so every decision is handled by the catch branch of
\* sendSwipeDecision.  One title, two or three voters.
Next ==
  \/ \E n \in PersonInputs : SetSwipePersons(n)
  \/ \E p \in SeqToSet(swipePersons) : SwitchPerson(p)
  \/ AddSwipeMovie("X")
  \/ RemoveSwipeMovie("X")
  \/ PerformClearSwipeList
  \/ ConfirmSwipeSetup
  \/ CloseMatchModal
  \/ \E d \in Decisions : Decide(d)
  \/ \E i \in 1..MaxPending : DecideTimer(i)
  \/ \E i \in 1..MaxPending : SwipeActionFail(i)

Spec == Init /\ [][Next]_vars

\* SpecItems: the same device editing a list of two titles with two voters
\* who swipe yes, one decision at a time.
NextItems ==
  \/ \E p \in SeqToSet(swipePersons) : SwitchPerson(p)
  \/ \E t \in Titles : AddSwipeMovie(t)
  \/ \E t \in Titles : RemoveSwipeMovie(t)
  \/ ConfirmSwipeSetup
  \/ pending = <<>> /\ Decide("Ja")
  \/ \E i \in 1..MaxPending : DecideTimer(i)
  \/ \E i \in 1..MaxPending : SwipeActionFail(i)

SpecItems == Init /\ [][NextItems]_vars

\* SpecNotify: two titles, two voters who swipe yes, restart navigation with
\* the voter-count button and close the match modal.
NextNotify ==
  \/ SetSwipePersons(2)
  \/ \E p \in SeqToSet(swipePersons) : SwitchPerson(p)
  \/ \E t \in Titles : AddSwipeMovie(t)
  \/ ConfirmSwipeSetup
  \/ CloseMatchModal
  \/ pending = <<>> /\ Decide("Ja")
  \/ \E i \in 1..MaxPending : DecideTimer(i)
  \/ \E i \in 1..MaxPending : SwipeActionFail(i)

SpecNotify == Init /\ [][NextNotify]_vars

\* SpecSessions: one title, two voters who swipe yes; the session is started
\* again by confirming and by clearing the list.  Within a session the Match
\* Set only grows.
NextSessions ==
  \/ \E p \in SeqToSet(swipePersons) : SwitchPerson(p)
  \/ AddSwipeMovie("X")
  \/ PerformClearSwipeList
  \/ ConfirmSwipeSetup
  \/ CloseMatchModal
  \/ pending = <<>> /\ Decide("Ja")
  \/ \E i \in 1..MaxPending : DecideTimer(i)
  \/ \E i \in 1..MaxPending : SwipeActionFail(i)

SpecSessions == Init /\ [][NextSessions]_vars

\* SpecGestures: two titles, the active voter swipes; a second gesture can be
\* made while the timer or the request of the first is still under way; the
\* list is edited and confirmed only while no decision is under way
NextGestures ==
  \/ \E t \in Titles : pending = <<>> /\ AddSwipeMovie(t)
  \/ pending = <<>> /\ ConfirmSwipeSetup
  \/ \E d \in Decisions : DecideUpTo(d, MaxPendingLong)
  \/ \E i \in 1..MaxPendingLong : DecideTimer(i)
  \/ \E i \in 1..MaxPendingLong : SwipeActionFail(i)

SpecGestures == Init /\ [][NextGestures]_vars

\* SpecPersons: voter counts inside and outside 2..5 are requested while a
\* title is on the list and the voters take turns
NextPersons ==
  \/ \E n \in PersonRequests : SetSwipePersons(n)
  \/ \E p \in SeqToSet(swipePersons) : SwitchPerson(p)
  \/ AddSwipeMovie("X")
  \/ ConfirmSwipeSetup
  \/ pending = <<>> /\ Decide("Ja")
  \/ \E i \in 1..MaxPending : DecideTimer(i)
  \/ \E i \in 1..MaxPending : SwipeActionFail(i)

SpecPersons == Init /\ [][NextPersons]_vars

\* SpecNet: the device and the backend up, one title, two voters; another
\* device decides too, and polls are answered in any order.
NextNet ==
  \/ SwipeStateRequest
  \/ \E i \in 1..MaxInFlight : LoadSwipeStateFromServer(i)
  \/ AddSwipeMovie("X")
  \/ ConfirmSwipeSetup
  \/ \E p \in SeqToSet(swipePersons) : SwitchPerson(p)
  \/ \E p \in {"p1", "p2"} : RemoteSwipeAction("Ja", "X", p)

SpecNet == InitNet /\ [][NextNet]_vars

\* SpecProgress: the handlers that rebuild the voters' orders, with the
\* backend up: list edits, filtered load, clear, voter switch, polls and the
\* decisions of another device
NextProgress ==
  \/ polls = <<>> /\ SwipeStateRequest
  \/ \E i \in 1..MaxInFlight : LoadSwipeStateFromServer(i)
  \/ AddSwipeMovie("X")
  \/ RemoveSwipeMovie("X")
  \/ PerformClearSwipeList
  \/ LoadSwipeFilteredList(<<"Y">>)
  \/ \E p \in SeqToSet(swipePersons) : SwitchPerson(p)
  \/ RemoteSwipeAction("Ja", "X", "p2")

SpecProgress == InitNet /\ [][NextProgress]_vars

\* SpecShared: the page is opened while the backend already holds the session
\* of another device (one title, confirmed, one yes of p2); the user may act
\* before the first GET /swipe-state is answered.
SharedSession ==
  [movies |-> <<[title |-> "X", source |-> "manual"]>>,
   progress |-> [p \in {"p1", "p2"} |->
                   [idx |-> IF p = "p2" THEN 1 ELSE 0, done |-> p = "p2",
                    order |-> <<"X">>]],
   persons |-> <<"p1", "p2">>,
   likes |-> [t \in {"X"} |-> {"p2"}],
   matches |-> {},
   locked |-> TRUE]

InitShared == backend = "up" /\ InitClientWith(SharedSession) /\ RankInit /\ ConfigInit /\ UiInit

NextShared ==
  \/ polls = <<>> /\ SwipeStateRequest
  \/ \E i \in 1..MaxInFlight : LoadSwipeStateFromServer(i)
  \/ SetSwipePersons(2)
  \/ AddSwipeMovie("Y")
  \/ PerformClearSwipeList
  \/ ConfirmSwipeSetup
  \/ ResetAllStates

SpecShared == InitShared /\ [][NextShared]_vars

\* SpecApply: the backend holds a session of two titles that no device
\* changes; the device polls it and applies every answer. The stored progress
\* is complete, lacks the entry of a voter, or holds an entry without order.
EntryInputs ==
  {[idx |-> i, done |-> i = 2, order |-> o] : i \in {0, 2}, o \in {<<"X", "Y">>, <<"Y", "X">>}}
  \cup {[idx |-> 0, done |-> FALSE, order |-> <<>>]}

ProgressInputs ==
  [{"p1", "p2"} -> EntryInputs] \cup [{"p1"} -> EntryInputs] \cup {<<>>}

SnapshotInputs ==
  {[movies |-> <<[title |-> "X", source |-> "manual"], [title |-> "Y", source |-> "manual"]>>,
    progress |-> pr,
    persons |-> <<"p1", "p2">>,
    likes |-> [t \in {"X"} |-> {"p2"}],
    matches |-> {},
    locked |-> TRUE] : pr \in ProgressInputs}

InitApply ==
  /\ backend = "up"
  /\ \E srv \in SnapshotInputs : InitClientWith(srv)
  /\ RankInit
  /\ ConfigInit /\ UiInit

NextApply ==
  \/ SwipeStateRequest
  \/ \E i \in 1..MaxInFlight : LoadSwipeStateFromServer(i)

SpecApply == InitApply /\ [][NextApply]_vars

\* SpecModal: the backend holds a confirmed session of two titles; the voters
\* swipe yes on other devices, this device polls and shows the matches. A modal
\* that is open is closed at some time (click on matchContinue).
TwoItemSession ==
  [movies |-> <<[title |-> "X", source |-> "manual"], [title |-> "Y", source |-> "manual"]>>,
   progress |-> [p \in {"p1", "p2"} |-> [idx |-> 0, done |-> FALSE, order |-> <<"X", "Y">>]],
   persons |-> <<"p1", "p2">>,
   likes |-> <<>>,
   matches |-> {},
   locked |-> TRUE]

InitModal == backend = "up" /\ InitClientWith(TwoItemSession) /\ RankInit /\ ConfigInit /\ UiInit

NextModal ==
  \/ polls = <<>> /\ SwipeStateRequest
  \/ \E i \in 1..MaxInFlight : LoadSwipeStateFromServer(i)
  \/ \E t \in Titles, p \in {"p1", "p2"} : RemoteSwipeAction("Ja", t, p)
  \/ CloseMatchModal

SpecModal == InitModal /\ [][NextModal]_vars /\ WF_vars(CloseMatchModal)

\* SpecDialog: the list is edited and confirmed, the backend comes and goes,
\* and the two prompts are opened, cancelled and confirmed in any order.
NextDialog ==
  \/ \E t \in Titles : AddSwipeMovie(t)
  \/ ConfirmSwipeSetup
  \/ \E a \in ConfirmActions : OpenConfirmModal(a)
  \/ ConfirmCancel
  \/ ConfirmOk
  \/ \E b \in {"up", "error"} : BackendChanges(b)

SpecDialog == InitNet /\ [][NextDialog]_vars

\* SpecMerge: titles are added by hand and removed, the filtered list is
\* loaded from catalogs that hold a title added by hand, the voters take
\* turns and the list is confirmed.
NextMerge ==
  \/ \E t \in Titles : AddSwipeMovie(t)
  \/ \E t \in Titles : RemoveSwipeMovie(t)
  \/ \E catalog \in {<<"X">>, <<"X", "Y">>} : LoadSwipeFilteredList(catalog)
  \/ \E p \in SeqToSet(swipePersons) : SwitchPerson(p)
  \/ ConfirmSwipeSetup

SpecMerge == Init /\ [][NextMerge]_vars

\* SpecPad: a controller whose buttons are pressed and released in any
\* combination from frame to frame, unplugged and plugged in again, while the
\* settings are also opened and closed with the mouse.
NextPad ==
  \/ \E gp \in SUBSET Buttons : GamepadFrame(gp)
  \/ NoGamepadFrame
  \/ ToggleSettings

SpecPad == Init /\ [][NextPad]_vars

\* ------------------------------------------------------------ ranker steps
\* A ranking request is answered when the backend is up and the request
\* reaches it (reached); otherwise fetch rejects or the status is an error.

\* const allowCsvFallback of fetchState
allowCsvFallback(option, attempted) == option /\ ~attempted

\* the allowCsvFallback option loadMoviesFromCsv would pass if it asked for
\* the fallback again
CsvFollowUpOptionAllowing == TRUE

\* the allowCsvFallback option of the fetchState call in loadMoviesFromCsv
CsvFollowUpOption == FALSE

\* The kind of an answer to GET /state names the call and whether
\* allowCsvFallback was true when fetchState was called: "init" is the call
\* of init (option true, csvFallbackAttempted still false), "csvState" and
\* "csvFallbackState" the call of loadMoviesFromCsv.
FallbackKinds == {"init", "csvFallbackState"}

CsvFollowUpKind(attempted) ==
  IF allowCsvFallback(CsvFollowUpOption, attempted) THEN "csvFallbackState" ELSE "csvState"

\* the poll timer: fetchState(false, { preservePair: true, skipPickPair: true })
PollRankState(reached) ==
  /\ Len(rankInFlight) < MaxInFlight
  /\ rankInFlight' = Append(rankInFlight,
                            Answer("poll", reached /\ backend = "up", rankServer))
  /\ rankOp' = ROp("fetchState", -1)
  /\ UNCHANGED <<movies, ratings, TS_SIGMA, comparisonCount, persons, personCount, currentPerson,
                 currentPair, totalVotes, pairCoverage, pairCoveragePerPerson,
                 rankerConfirmed, voteHidden, rankServer, swipeVars, backend, cfgVars, uiVars>>

\* GET /state answered or failed: the rest of fetchState.  The first fetch of
\* the page falls back to loadMoviesFromCsv when fewer than two movies came;
\* items is what the CSV file holds, reached whether POST /load-csv succeeds.
FetchStateAnswer(i, shape, items, reached) ==
  /\ i \in 1..Len(rankInFlight)
  /\ rankInFlight[i].kind \in {"init", "poll", "state", "csvFallbackState"}
  /\ LET r == rankInFlight[i]
         preservePair == r.kind = "poll"
         skipPickPair == r.kind = "poll"
     IN IF r.ok
        THEN \E c \in applyState(RCur, Shaped(r.state, shape), preservePair, skipPickPair) :
               /\ rankOp' = Applied(r.kind \o "Ok", shape)
               /\ IF r.kind \in FallbackKinds /\ Len(c.movies) < 2
                  THEN LET loaded == reached /\ backend = "up"
                           srv == IF loaded THEN srvLoadCatalog(rankServer, items)
                                  ELSE rankServer
                       IN /\ SetRank([c EXCEPT !.voteHidden = TRUE])
                          /\ rankServer' = srv
                          /\ rankInFlight' =
                               Append(RemoveAt(rankInFlight, i), Answer("csv", loaded, srv))
                          /\ csvFallbackAttempted' = TRUE
                          /\ csvCalls' = Min(csvCalls + 1, MaxCsvCalls)
                  ELSE /\ SetRank(c)
                       /\ rankInFlight' = RemoveAt(rankInFlight, i)
                       /\ UNCHANGED <<rankServer, csvVars>>
        ELSE \E c \in fetchStateFailed(RCur, preservePair, skipPickPair) :
               /\ SetRank(c)
               /\ rankOp' = ROp(r.kind \o "Failed", -1)
               /\ rankInFlight' = RemoveAt(rankInFlight, i)
               /\ UNCHANGED <<rankServer, csvVars>>
  /\ UNCHANGED <<swipeVars, backend, cfgVars, dialogVars, padVars>>

\* click on loadMoviesBtn: loadMoviesFromCsv up to its fetch
LoadMoviesFromCsv(items, reached) ==
  /\ Len(rankInFlight) < MaxInFlight
  /\ LET loaded == reached /\ backend = "up"
         srv == IF loaded THEN srvLoadCatalog(rankServer, items) ELSE rankServer
     IN /\ rankServer' = srv
        /\ rankInFlight' = Append(rankInFlight, Answer("csv", loaded, srv))
  /\ voteHidden' = TRUE
  /\ rankOp' = ROp("loadMoviesFromCsv", -1)
  /\ UNCHANGED <<movies, ratings, TS_SIGMA, comparisonCount, persons, personCount, currentPerson,
                 currentPair, totalVotes, pairCoverage, pairCoveragePerPerson,
                 rankerConfirmed, swipeVars, backend, cfgVars, uiVars>>

\* POST /load-csv answered or failed: the rest of loadMoviesFromCsv
CsvAnswer(i, shape) ==
  /\ i \in 1..Len(rankInFlight)
  /\ rankInFlight[i].kind = "csv"
  /\ LET r == rankInFlight[i]
     IN IF r.ok
        THEN \E c \in applyState(RCur, Shaped(r.state, shape), FALSE, FALSE) :
             \E c2 \in updateVoteVisibility([c EXCEPT !.rankerConfirmed = FALSE],
                                            FALSE, FALSE) :
               /\ SetRank(c2)
               /\ rankOp' = Applied("csvOk", shape)
        ELSE \E c \in updateVoteVisibility([RCur EXCEPT !.rankerConfirmed = FALSE],
                                           FALSE, FALSE) :
               /\ SetRank(c)
               /\ rankOp' = ROp("csvFailed", -1)
  /\ rankInFlight' = RemoveAt(rankInFlight, i)
  /\ UNCHANGED <<rankServer, swipeVars, backend, cfgVars, uiVars>>

\* POST /load-csv answered without a state: loadMoviesFromCsv calls
\* fetchState(false, { preservePair: false, allowCsvFallback: false })
CsvAnswerWithoutState(i, reached) ==
  /\ i \in 1..Len(rankInFlight)
  /\ rankInFlight[i].kind = "csv"
  /\ rankInFlight[i].ok
  /\ rankInFlight' = Append(RemoveAt(rankInFlight, i),
                            Answer(CsvFollowUpKind(csvFallbackAttempted),
                                   reached /\ backend = "up", rankServer))
  /\ rankOp' = ROp("csvOkWithoutState", -1)
  /\ UNCHANGED <<movies, ratings, TS_SIGMA, comparisonCount, persons, personCount, currentPerson,
                 currentPair, totalVotes, pairCoverage, pairCoveragePerPerson,
                 rankerConfirmed, voteHidden, rankServer, swipeVars, backend, cfgVars, uiVars>>

\* GET /state of that call answered or failed: the rest of fetchState, which
\* has no fallback, then the rest of loadMoviesFromCsv
CsvFollowUpAnswer(i, shape) ==
  /\ i \in 1..Len(rankInFlight)
  /\ rankInFlight[i].kind = "csvState"
  /\ LET r == rankInFlight[i]
         fetched == IF r.ok THEN applyState(RCur, Shaped(r.state, shape), FALSE, FALSE)
                    ELSE fetchStateFailed(RCur, FALSE, FALSE)
     IN \E c \in fetched :
        \E c2 \in updateVoteVisibility([c EXCEPT !.rankerConfirmed = FALSE], FALSE, FALSE) :
          /\ SetRank(c2)
          /\ rankOp' = IF r.ok THEN Applied("csvStateOk", shape) ELSE ROp("csvStateFailed", -1)
  /\ rankInFlight' = RemoveAt(rankInFlight, i)
  /\ UNCHANGED <<rankServer, swipeVars, backend, cfgVars, uiVars>>

\* click on fetchMoviesBtn: fetchAndLoadMovies up to its fetch
FetchAndLoadMovies(items, reached) ==
  /\ Len(rankInFlight) < MaxInFlight
  /\ LET loaded == reached /\ backend = "up"
         srv == IF loaded THEN srvLoadCatalog(rankServer, items) ELSE rankServer
     IN /\ rankServer' = srv
        /\ rankInFlight' = Append(rankInFlight, Answer("generate", loaded, srv))
  /\ voteHidden' = TRUE
  /\ rankOp' = ROp("fetchAndLoadMovies", -1)
  /\ UNCHANGED <<movies, ratings, TS_SIGMA, comparisonCount, persons, personCount, currentPerson,
                 currentPair, totalVotes, pairCoverage, pairCoveragePerPerson,
                 rankerConfirmed, swipeVars, backend, cfgVars, uiVars>>

\* POST /generate answered: fetchState(false, { preservePair: false }) starts;
\* failed: a status line
GenerateAnswer(i, reached) ==
  /\ i \in 1..Len(rankInFlight)
  /\ rankInFlight[i].kind = "generate"
  /\ rankInFlight' =
       IF rankInFlight[i].ok
       THEN Append(RemoveAt(rankInFlight, i),
                   Answer("state", reached /\ backend = "up", rankServer))
       ELSE RemoveAt(rankInFlight, i)
  /\ rankOp' = ROp(IF rankInFlight[i].ok THEN "generateOk" ELSE "generateFailed", -1)
  /\ UNCHANGED <<movies, ratings, TS_SIGMA, comparisonCount, persons, personCount, currentPerson,
                 currentPair, totalVotes, pairCoverage, pairCoveragePerPerson,
                 rankerConfirmed, voteHidden, rankServer, swipeVars, backend, cfgVars, uiVars>>

\* the catch branch of confirmRankerSetup as it would be without its count of
\* the movies
confirmFailedWithoutCount(c) ==
  updateVoteVisibility([c EXCEPT !.rankerConfirmed = TRUE], TRUE, FALSE)

\* the catch branch of confirmRankerSetup: with two movies or more the
\* comparison is released locally
confirmFailed(c) ==
  IF Len(c.movies) >= 2
  THEN updateVoteVisibility([c EXCEPT !.rankerConfirmed = TRUE], TRUE, FALSE)
  ELSE {c}

\* click on confirmSetupBtn with a catalog loaded: confirmRankerSetup up to
\* its fetch (with fewer than two movies it first runs loadMoviesFromCsv)
ConfirmRankerSetup(reached) ==
  /\ Len(movies) >= 2
  /\ Len(rankInFlight) < MaxInFlight
  /\ LET ok == reached /\ backend = "up" /\ srvConfirmAccepts(rankServer)
         srv == IF ok THEN srvRankConfirm(rankServer) ELSE rankServer
     IN /\ rankServer' = srv
        /\ rankInFlight' = Append(rankInFlight, Answer("confirm", ok, srv))
  /\ rankOp' = ROp("confirmRankerSetup", -1)
  /\ UNCHANGED <<movies, ratings, TS_SIGMA, comparisonCount, persons, personCount, currentPerson,
                 currentPair, totalVotes, pairCoverage, pairCoveragePerPerson,
                 rankerConfirmed, voteHidden, swipeVars, backend, cfgVars, uiVars>>

\* POST /rank-confirm answered or failed: the rest of confirmRankerSetup
ConfirmAnswer(i, shape) ==
  /\ i \in 1..Len(rankInFlight)
  /\ rankInFlight[i].kind = "confirm"
  /\ LET r == rankInFlight[i]
     IN IF r.ok
        THEN \E c \in applyState([RCur EXCEPT !.rankerConfirmed = TRUE],
                                 Shaped(r.state, shape), TRUE, FALSE) :
               /\ SetRank(c)
               /\ rankOp' = Applied("confirmOk", shape)
        ELSE \E c \in confirmFailed(RCur) :
               /\ SetRank(c)
               /\ rankOp' = ROp("confirmFailed", -1)
  /\ rankInFlight' = RemoveAt(rankInFlight, i)
  /\ UNCHANGED <<rankServer, swipeVars, backend, cfgVars, uiVars>>

\* click on applyPersonsBtn
OnApplyPersons(requested, reached) ==
  /\ LET c == onApplyPersons(RCur, requested)
     IN IF Len(movies) = 0
        THEN SetRank(c) /\ UNCHANGED <<rankServer, rankInFlight>>
        ELSE /\ Len(rankInFlight) < MaxInFlight
             /\ SetRank(c)
             /\ LET ok == reached /\ backend = "up"
                    srv == IF ok THEN srvResetRank(rankServer, Max(1, requested))
                           ELSE rankServer
                IN /\ rankServer' = srv
                   /\ rankInFlight' = Append(rankInFlight, Answer("reset", ok, srv))
  /\ rankOp' = ROp("onApplyPersons", -1)
  /\ UNCHANGED <<swipeVars, backend, cfgVars, uiVars>>

\* POST /reset answered or failed: the rest of onApplyPersons
ResetAnswer(i, shape) ==
  /\ i \in 1..Len(rankInFlight)
  /\ rankInFlight[i].kind = "reset"
  /\ LET r == rankInFlight[i]
     IN IF r.ok
        THEN \E c \in applyState(RCur, Shaped(r.state, shape), FALSE, FALSE) :
               /\ SetRank(c)
               /\ rankOp' = Applied("resetOk", shape)
        ELSE /\ SetRank(RCur)
             /\ rankOp' = ROp("resetFailed", -1)
  /\ rankInFlight' = RemoveAt(rankInFlight, i)
  /\ UNCHANGED <<rankServer, swipeVars, backend, cfgVars, uiVars>>

\* click on a voter button of renderPersonButtons
SelectPerson(p) ==
  /\ Includes(persons, p)
  /\ currentPerson' = p
  /\ rankOp' = ROp("selectPerson", -1)
  /\ UNCHANGED <<movies, ratings, TS_SIGMA, comparisonCount, persons, personCount,
                 currentPair, totalVotes, pairCoverage, pairCoveragePerPerson,
                 rankerConfirmed, voteHidden, rankServer, rankInFlight,
                 swipeVars, backend, cfgVars, uiVars>>

\* click on leftCard (0) or rightCard (1): vote(winnerIndex) up to its fetch;
\* limit caps the number of votes the backend has counted
VoteUpTo(winnerIndex, reached, limit) ==
  /\ ~voteHidden
  /\ currentPair # Null
  /\ Len(rankInFlight) < MaxInFlight
  /\ rankServer.totalVotes < limit
  /\ LET req == voteRequest(RCur, winnerIndex)
         accepted == reached /\ backend = "up" /\ srvVoteAccepts(rankServer, req)
         srv == IF accepted THEN srvVote(rankServer, req) ELSE rankServer
     IN /\ rankServer' = srv
        /\ rankInFlight' = Append(rankInFlight, Answer("vote", accepted, srv))
  /\ rankOp' = ROp("vote", winnerIndex)
  /\ UNCHANGED <<movies, ratings, TS_SIGMA, comparisonCount, persons, personCount, currentPerson,
                 currentPair, totalVotes, pairCoverage, pairCoveragePerPerson,
                 rankerConfirmed, voteHidden, swipeVars, backend, cfgVars, uiVars>>

Vote(winnerIndex, reached) == VoteUpTo(winnerIndex, reached, MaxVotes)

\* POST /vote answered or failed: the rest of vote
VoteAnswer(i, shape) ==
  /\ i \in 1..Len(rankInFlight)
  /\ rankInFlight[i].kind = "vote"
  /\ LET r == rankInFlight[i]
     IN IF r.ok
        THEN \E c \in applyState(RCur, Shaped(r.state, shape), FALSE, FALSE) :
               /\ SetRank(c)
               /\ rankOp' = Applied("voteOk", shape)
        ELSE /\ SetRank(voteFailed(RCur))
             /\ rankOp' = ROp("voteFailed", -1)
  /\ rankInFlight' = RemoveAt(rankInFlight, i)
  /\ UNCHANGED <<rankServer, swipeVars, backend, cfgVars, uiVars>>

\* SpecRank: one device using the ranker with complete snapshots, one request
\* at a time; the CSV file holds three titles or one
NextRank ==
  \/ \E ok \in BOOLEAN : rankInFlight = <<>> /\ PollRankState(ok)
  \/ \E i \in 1..MaxInFlight, ok \in BOOLEAN :
       FetchStateAnswer(i, "full", <<"A", "B", "C">>, ok)
  \/ \E items \in {<<"A">>, <<"A", "B", "C">>}, ok \in BOOLEAN :
       rankInFlight = <<>> /\ LoadMoviesFromCsv(items, ok)
  \/ \E i \in 1..MaxInFlight : CsvAnswer(i, "full")
  \/ \E ok \in BOOLEAN : rankInFlight = <<>> /\ ConfirmRankerSetup(ok)
  \/ \E i \in 1..MaxInFlight : ConfirmAnswer(i, "full")
  \/ \E n \in RankPersonInputs, ok \in BOOLEAN :
       rankInFlight = <<>> /\ OnApplyPersons(n, ok)
  \/ \E i \in 1..MaxInFlight : ResetAnswer(i, "full")
  \/ \E p \in SeqToSet(persons) : SelectPerson(p)
  \/ \E w \in {0, 1}, ok \in BOOLEAN : rankInFlight = <<>> /\ Vote(w, ok)
  \/ \E i \in 1..MaxInFlight : VoteAnswer(i, "full")

SpecRank == InitNet /\ [][NextRank]_vars

\* SpecCoverage: the catalog is loaded from the CSV file or from Jellyfin,
\* the snapshots arrive in every shape, one request at a time
\* SpecCsv: the first fetchState of the page, answered or refused, and the
\* load button, one call chain at a time; POST /load-csv answers with or without a state, and every
\* request is answered or fails at some time.
AnswerStep ==
  \/ \E i \in 1..MaxInFlight, items \in {<<"A">>, <<"A", "B", "C">>}, reached \in BOOLEAN :
       FetchStateAnswer(i, "full", items, reached)
  \/ \E i \in 1..MaxInFlight : CsvAnswer(i, "full")
  \/ \E i \in 1..MaxInFlight, reached \in BOOLEAN : CsvAnswerWithoutState(i, reached)
  \/ \E i \in 1..MaxInFlight : CsvFollowUpAnswer(i, "full")

NextCsv ==
  \/ AnswerStep
  \/ \E items \in {<<"A">>, <<"A", "B", "C">>}, ok \in BOOLEAN :
       rankInFlight = <<>> /\ LoadMoviesFromCsv(items, ok)
  \/ \E b \in {"up", "error"} : BackendChanges(b)

InitCsv == Init \/ InitNet

SpecCsv == InitCsv /\ [][NextCsv]_vars /\ WF_vars(AnswerStep)

NextCoverage ==
  \/ \E i \in 1..MaxInFlight, shape \in Shapes, ok \in BOOLEAN :
       FetchStateAnswer(i, shape, <<"A", "B", "C">>, ok)
  \/ \E items \in Catalogs, ok \in BOOLEAN :
       rankInFlight = <<>> /\ LoadMoviesFromCsv(items, ok)
  \/ \E i \in 1..MaxInFlight, shape \in Shapes : CsvAnswer(i, shape)
  \/ \E items \in Catalogs, ok \in BOOLEAN :
       rankInFlight = <<>> /\ FetchAndLoadMovies(items, ok)
  \/ \E i \in 1..MaxInFlight, ok \in BOOLEAN : GenerateAnswer(i, ok)
  \/ rankInFlight = <<>> /\ ConfirmRankerSetup(TRUE)
  \/ \E i \in 1..MaxInFlight, shape \in Shapes : ConfirmAnswer(i, shape)
  \/ \E n \in RankPersonInputs, ok \in BOOLEAN :
       rankInFlight = <<>> /\ OnApplyPersons(n, ok)
  \/ \E i \in 1..MaxInFlight, shape \in Shapes : ResetAnswer(i, shape)
  \/ \E w \in {0, 1} : rankInFlight = <<>> /\ Vote(w, TRUE)
  \/ \E i \in 1..MaxInFlight, shape \in Shapes : VoteAnswer(i, shape)

SpecCoverage == InitNet /\ [][NextCoverage]_vars

\* SpecRace: after the page loaded its catalog, votes and polls only; a poll
\* and a vote can be under way together and their answers arrive in any order
NextRace ==
  \/ PollRankState(TRUE)
  \/ \E i \in 1..MaxInFlight : FetchStateAnswer(i, "full", <<"A", "B", "C">>, TRUE)
  \/ \E i \in 1..MaxInFlight : CsvAnswer(i, "full")
  \/ ConfirmRankerSetup(TRUE)
  \/ \E i \in 1..MaxInFlight : ConfirmAnswer(i, "full")
  \/ \E w \in {0, 1} : Vote(w, TRUE)
  \/ \E i \in 1..MaxInFlight : VoteAnswer(i, "full")

SpecRace == InitNet /\ [][NextRace]_vars

\* SpecConfirm: catalogs of one and of three titles are loaded, the setup is
\* confirmed against a backend that answers or not, the page polls; two
\* requests can be under way together
NextConfirm ==
  \/ PollRankState(TRUE)
  \/ \E i \in 1..MaxInFlight, ok \in BOOLEAN :
       FetchStateAnswer(i, "full", <<"A", "B", "C">>, ok)
  \/ \E items \in {<<"A">>, <<"A", "B", "C">>}, ok \in BOOLEAN :
       LoadMoviesFromCsv(items, ok)
  \/ \E i \in 1..MaxInFlight : CsvAnswer(i, "full")
  \/ \E ok \in BOOLEAN : ConfirmRankerSetup(ok)
  \/ \E i \in 1..MaxInFlight : ConfirmAnswer(i, "full")

SpecConfirm == InitNet /\ [][NextConfirm]_vars

\* SpecConfig: the page starts and asks for config/client.json once
NextConfig ==
  \E answer \in {Parsed(d) : d \in ClientFiles} \cup NotLoadable : LoadAppConfig(answer)

SpecConfig == Init /\ [][NextConfig]_vars

\* SpecPairs: the page loads, a catalog is loaded and confirmed; the snapshots
\* arrive complete or with a rating for a title outside their movie list;
\* one request at a time
NextPairs ==
  \/ \E i \in 1..MaxInFlight, shape \in RatingShapes \cup {"full"}, ok \in BOOLEAN :
       FetchStateAnswer(i, shape, <<"A", "B">>, ok)
  \/ \E ok \in BOOLEAN : rankInFlight = <<>> /\ PollRankState(ok)
  \/ \E items \in Catalogs, ok \in BOOLEAN :
       rankInFlight = <<>> /\ LoadMoviesFromCsv(items, ok)
  \/ \E i \in 1..MaxInFlight, shape \in RatingShapes \cup {"full"} : CsvAnswer(i, shape)
  \/ \E ok \in BOOLEAN : rankInFlight = <<>> /\ ConfirmRankerSetup(ok)
  \/ \E i \in 1..MaxInFlight, shape \in RatingShapes \cup {"full"} : ConfirmAnswer(i, shape)

SpecPairs == InitNet /\ [][NextPairs]_vars

\* SpecVotes: the page loads the catalog of three titles, the voter confirms
\* and votes, one request at a time
NextVotes ==
  \/ \E i \in 1..MaxInFlight : FetchStateAnswer(i, "full", <<"A", "B", "C">>, TRUE)
  \/ \E i \in 1..MaxInFlight : CsvAnswer(i, "full")
  \/ rankInFlight = <<>> /\ ConfirmRankerSetup(TRUE)
  \/ \E i \in 1..MaxInFlight : ConfirmAnswer(i, "full")
  \/ \E w \in {0, 1} : rankInFlight = <<>> /\ VoteUpTo(w, TRUE, MaxVotesLong)
  \/ \E i \in 1..MaxInFlight : VoteAnswer(i, "full")

SpecVotes == InitNet /\ [][NextVotes]_vars

\* SpecBelief: the page loads a catalog, reloads and polls; the snapshots
\* carry any ts_sigma and any tsConfig.sigma, one request at a time
NextBelief ==
  \/ rankInFlight = <<>> /\ PollRankState(TRUE)
  \/ \E items \in Catalogs : rankInFlight = <<>> /\ LoadMoviesFromCsv(items, TRUE)
  \/ \E i \in 1..MaxInFlight, shape \in BeliefShapes \cup {"full"} :
       FetchStateAnswer(i, shape, <<"A", "B">>, TRUE)
  \/ \E i \in 1..MaxInFlight, shape \in BeliefShapes \cup {"full"} : CsvAnswer(i, shape)

SpecBelief == InitNet /\ [][NextBelief]_vars

\* ------------------------------------------------------------------ claims
TitlesNow == {swipeSelectedMovies[i].title : i \in 1..Len(swipeSelectedMovies)}
IsDecision(op) == op.op \in {"likeFallback", "dislikeFallback"}

\* A voter's Swipe Progress as the device holds it: the live cursor for the
\* active voter, the stored entry for everybody else.
ProgressOf(p, cur, order, idx, done, progress) ==
  IF p = cur THEN [order |-> order, idx |-> idx, done |-> done]
  ELSE IF p \in DOMAIN progress THEN progress[p]
  ELSE [order |-> <<>>, idx |-> 0, done |-> FALSE]

\* C1: a yes decision adds its title to the Match Set if and only if the Like
\* Set then has exactly as many voters as there are participants, and a no
\* decision never adds a title.
C1_MatchIffLikesEqualCount ==
  [][ /\ (lastOp'.op = "likeFallback" /\ lastOp'.title \notin swipeMatches)
         => (lastOp'.title \in swipeMatches'
               <=> Cardinality(LikesOf(swipeLikes', lastOp'.title)) = swipePersonCount')
      /\ lastOp'.op = "dislikeFallback" => swipeMatches' \subseteq swipeMatches ]_vars

\* C2: when a title enters the Match Set, every current participant is in
\* its Like Set.
C2_MatchLikedByAllParticipants ==
  [][ \A t \in swipeMatches' \ swipeMatches :
        SeqToSet(swipePersons') \subseteq LikesOf(swipeLikes', t) ]_vars

\* C3: a no decision takes the voter out of the title's Like Set and leaves
\* the Match Set as it was; no like or dislike decision takes a title out of
\* the Match Set.
C3_DislikeKeepsMatches ==
  [][ /\ lastOp'.op = "dislikeFallback"
         => /\ swipeMatches' = swipeMatches
            /\ lastOp'.person \notin LikesOf(swipeLikes', lastOp'.title)
      /\ IsDecision(lastOp') => swipeMatches \subseteq swipeMatches' ]_vars

\* a no decision has been handled for a title that is, and stays, a match
C3_Witness ==
  /\ lastOp.op = "dislikeFallback"
  /\ lastOp.title \in swipeMatches
  /\ lastOp.person \in SeqToSet(swipePersons)

\* C4: addSwipeMovie on a Locked session changes nothing: no item, no Like
\* Set, no participant's progress.
C4_AddOnLockedChangesNothing ==
  [][ (swipeLocked /\ lastOp'.op = "addSwipeMovie")
        => UNCHANGED <<swipeSelectedMovies, swipeLikes, swipeMatches, swipeProgress,
                       swipeOrder, swipeCurrentIndex, swipeCompleted, swipeLocked>> ]_vars

\* C5: while the session is Locked no list-editing handler changes the item list.
C5_LockedListFrozen ==
  [][ (swipeLocked /\ lastOp'.op \in {"addSwipeMovie", "removeSwipeMovie",
                                      "loadSwipeFilteredList"})
        => swipeSelectedMovies' = swipeSelectedMovies ]_vars

\* C6: a decision whose title is not in the item list or whose voter is not
\* a participant changes no Like Set, no match and no cursor.
C6_StaleDecisionRejected ==
  [][ (/\ IsDecision(lastOp')
       /\ \/ lastOp'.title \notin TitlesNow
          \/ lastOp'.person \notin SeqToSet(swipePersons))
        => UNCHANGED <<swipeLikes, swipeMatches, swipeProgress, swipeOrder,
                       swipeCurrentIndex, swipeCompleted>> ]_vars

\* C7: a decision of voter v moves v's cursor forward by one, not past the
\* end of v's order, marks v Completed exactly at the end, and leaves the
\* order, cursor and done flag of every other participant alone.
C7_DecisionAdvancesOnlyVoter ==
  [][ IsDecision(lastOp') =>
        LET v == lastOp'.person
            before(p) == ProgressOf(p, swipeCurrentPerson, swipeOrder, swipeCurrentIndex,
                                    swipeCompleted, swipeProgress)
            after(p) == ProgressOf(p, swipeCurrentPerson', swipeOrder', swipeCurrentIndex',
                                   swipeCompleted', swipeProgress')
        IN /\ after(v).order = before(v).order
           /\ after(v).idx = Min(before(v).idx + 1, Len(before(v).order))
           /\ after(v).done = (after(v).idx >= Len(after(v).order))
           /\ \A q \in SeqToSet(swipePersons) \ {v} : after(q) = before(q) ]_vars

\* C8: the match modal is shown at most once per title.
C8_MatchShownOnce == \A t \in Titles : shown[t] <= 1

\* C9: confirmSwipeSetup on a Locked session changes neither the item list
\* nor the Like Sets, the Match Set or any participant's progress.
C9_ConfirmOnLockedIsNoOp ==
  [][ (swipeLocked /\ lastOp'.op = "confirmSwipeSetup")
        => UNCHANGED <<swipeSelectedMovies, swipeLikes, swipeMatches, swipeProgress,
                       swipeOrder, swipeCurrentIndex, swipeCompleted, swipeLocked>> ]_vars

IsPermutationOf(order, titles) ==
  /\ Len(order) = Len(titles)
  /\ \A t \in SeqToSet(order) \cup SeqToSet(titles) :
       Cardinality({i \in 1..Len(order) : order[i] = t})
         = Cardinality({i \in 1..Len(titles) : titles[i] = t})

\* C10: removeSwipeMovie(title) takes the item out of the list, deletes its
\* Like Set and its match, gives every participant an order over exactly the
\* remaining titles with cursor 0, and leaves the Like Sets and matches of
\* the other items alone.
C10_RemoveItemEffect ==
  [][ lastOp'.op = "removeSwipeMovie" =>
        LET t == lastOp'.title
            rest == [i \in 1..Len(swipeSelectedMovies') |-> swipeSelectedMovies'[i].title]
        IN /\ swipeSelectedMovies' = SelectSeq(swipeSelectedMovies, LAMBDA m : m.title # t)
           /\ t \notin DOMAIN swipeLikes'
           /\ t \notin swipeMatches'
           /\ DOMAIN swipeProgress' = SeqToSet(swipePersons)
           /\ \A p \in SeqToSet(swipePersons) :
                /\ IsPermutationOf(swipeProgress'[p].order, rest)
                /\ swipeProgress'[p].idx = 0
           /\ IsPermutationOf(swipeOrder', rest) /\ swipeCurrentIndex' = 0
           /\ \A u \in (DOMAIN swipeLikes) \ {t} :
                u \in DOMAIN swipeLikes' /\ swipeLikes'[u] = swipeLikes[u]
           /\ DOMAIN swipeLikes' \subseteq DOMAIN swipeLikes
           /\ swipeMatches' = swipeMatches \ {t} ]_vars

\* an item that was announced as a match has been removed while another
\* item stays listed, liked and matched
C10_Witness ==
  /\ lastOp.op = "removeSwipeMovie"
  /\ lastOp.title \in seenMatches
  /\ \E u \in TitlesNow : u \in swipeMatches /\ LikesOf(swipeLikes, u) # {}

\* C11: resetSwipeProgressAll, as the voter-count button runs it, gives every
\* current participant an order that is a permutation of the listed titles,
\* cursor 0 and done cleared, and leaves the item list, the Like Sets, the
\* Match Set and the locked flag as they were.
C11_ResetProgressEffect ==
  [][ lastOp'.op = "setSwipePersons" =>
        /\ DOMAIN swipeProgress' = SeqToSet(swipePersons')
        /\ \A p \in SeqToSet(swipePersons') :
             /\ IsPermutationOf(swipeProgress'[p].order,
                                [i \in 1..Len(swipeSelectedMovies) |->
                                   swipeSelectedMovies[i].title])
             /\ swipeProgress'[p].idx = 0
             /\ swipeProgress'[p].done = FALSE
        /\ swipeCurrentIndex' = 0
        /\ UNCHANGED <<swipeSelectedMovies, swipeLikes, swipeMatches, swipeLocked>> ]_vars

\* progress has been reset on a locked list of two items that holds likes
\* and a match
C11_Witness ==
  /\ lastOp.op = "setSwipePersons"
  /\ swipeLocked
  /\ Len(swipeSelectedMovies) = 2
  /\ swipeMatches # {}
  /\ \E t \in TitlesNow : Cardinality(LikesOf(swipeLikes, t)) = 1

\* C12: what another device committed at the backend (a like, a match) is
\* never taken back by a mutation this device makes from the snapshot it
\* holds; here the mutation is the switch to another voter, which saves the
\* progress with a POST of the device's whole local state.
C12_NoLostUpdate ==
  [][ lastOp'.op = "switchPerson" =>
        /\ \A t \in DOMAIN server.likes :
             LikesOf(server.likes, t) \subseteq LikesOf(server'.likes, t)
        /\ server.matches \subseteq server'.matches ]_vars

\* the device shows what the backend committed last
DeviceAtServer ==
  /\ swipeSelectedMovies = server.movies
  /\ \A t \in DOMAIN swipeLikes \cup DOMAIN server.likes :
       LikesOf(swipeLikes, t) = LikesOf(server.likes, t)
  /\ swipeMatches = server.matches
  /\ swipeLocked = server.locked

\* C13: a device that shows the most recently committed snapshot still shows
\* it after an answer to an older GET /swipe-state arrives behind the answer
\* to a newer one: the late answer never moves the list, the likes, the
\* matches or the lock back.
C13_StaleAnswerIgnored ==
  [][ lastOp'.op = "staleSwipeState" /\ DeviceAtServer => DeviceAtServer' ]_vars

C15_NoPairBelowTwo ==
  /\ ~voteHidden => rankerConfirmed /\ Len(movies) >= 2
  /\ Len(movies) < 2 \/ Cardinality(DOMAIN ratings) < 2 =>
       /\ voteHidden
       /\ pickPair(RCur) = {RCur}
  /\ currentPair # Null => \A k \in 1..2 : currentPair[k] # Undefined

\* a catalog of one title was loaded while a pair of an earlier catalog was kept
C15_Witness ==
  /\ rankOp.op = "csvOk"
  /\ Len(movies) = 1
  /\ Cardinality(DOMAIN ratings) = 1
  /\ rankServer.totalVotes = 0
  /\ currentPair # Null

\* C16: a vote that the backend rejects or that does not reach it leaves the
\* ratings, the comparison counts, the vote total, the coverage (overall and
\* per voter) and the pair on display as they were.
C16_FailedVoteChangesNothing ==
  [][ rankOp'.op = "voteFailed" =>
        UNCHANGED <<ratings, comparisonCount, totalVotes, pairCoverage,
                    pairCoveragePerPerson, currentPair, movies>> ]_vars

\* a vote failed after another one had been counted
C16_Witness ==
  /\ rankOp.op = "voteFailed"
  /\ totalVotes = 1
  /\ pairCoverage.coveredPairs = 1
  /\ currentPair # Null

\* the coverage counter of a catalog of n titles nobody voted on
FreshCounter(counter, n) ==
  counter.totalPairs = (n * (n - 1)) \div 2 /\ counter.coveredPairs = 0

\* C17: after a catalog of n >= 2 titles with no votes is loaded, the overall
\* coverage counter and the counter of every voter hold totalPairs =
\* n(n-1)/2 and coveredPairs = 0, in whatever shape the snapshot arrived.
C17_FreshCoverage ==
  [][ /\ rankOp'.op \in {"initOk", "csvOk", "stateOk"}
      /\ Len(movies') >= 2
      /\ totalVotes' = 0
      => /\ FreshCounter(pairCoverage', Len(movies'))
         /\ \A p \in SeqToSet(persons') :
              FreshCounter(pairCoveragePerPerson'[p], Len(movies')) ]_vars

\* ratio = coveredPairs / totalPairs, 0 when there are no pairs
RatioRight(counter) ==
  IF counter.totalPairs > 0
  THEN counter.ratio.num * counter.totalPairs = counter.coveredPairs * counter.ratio.den
  ELSE counter.ratio.num = 0

\* C18: every coverage counter held after applyState, the overall one and
\* each voter's, has ratio = coveredPairs / totalPairs when totalPairs > 0 and
\* ratio = 0 when totalPairs = 0, whatever ratio the snapshot carried.
C18_RatioRecomputed ==
  [][ rankOp'.shape # "" =>
        /\ RatioRight(pairCoverage')
        /\ \A p \in SeqToSet(persons') : RatioRight(pairCoveragePerPerson'[p]) ]_vars

\* a snapshot that carried the ratio 1/2 was applied after a vote covered one
\* of three pairs
C18_Witness ==
  /\ rankOp = Applied("voteOk", "otherRatio")
  /\ pairCoverage.coveredPairs = 1
  /\ pairCoverage.totalPairs = 3
  /\ pairCoveragePerPerson[currentPerson].coveredPairs = 1

\* C19: in a step that is no reset, reset-all or catalog load and leaves the
\* catalog as it was, the number of covered pairs held by the device never
\* decreases, in the overall counter
\* and in the counter of every voter, across votes, polls and refreshes.
C19_CoveredNeverDecreases ==
  [][ rankOp'.op \notin {"csvOk", "stateOk", "resetOk"} /\ movies' = movies =>
        /\ pairCoverage'.coveredPairs >= pairCoverage.coveredPairs
        /\ \A p \in DOMAIN pairCoveragePerPerson \cap DOMAIN pairCoveragePerPerson' :
             pairCoveragePerPerson'[p].coveredPairs >= pairCoveragePerPerson[p].coveredPairs ]_vars

\* the counters after one vote won by w against l
CountsMove(before, after, w, l) ==
  /\ DOMAIN after = DOMAIN before
  /\ after[w] = [before[w] EXCEPT !.games = @ + 1, !.wins = @ + 1]
  /\ after[l] = [before[l] EXCEPT !.games = @ + 1]
  /\ \A t \in DOMAIN before \ {w, l} : after[t] = before[t]

\* the title that vote(winnerIndex) names as winner and as loser
WinnerOf(pair, winnerIndex) == IF winnerIndex = 0 THEN pair[1] ELSE pair[2]
LoserOf(pair, winnerIndex) == IF winnerIndex = 0 THEN pair[2] ELSE pair[1]

\* C20: an accepted vote adds 1 to the games of both titles of the pair and 1
\* to the wins of the winner, and changes no other counter; vote(0) names the
\* left title of currentPair as winner and the right one as loser, vote(1)
\* the reverse.  Checked on the backend's counters when the vote is accepted
\* and on the device's ratings when the answer is applied.
C20_VoteCounts ==
  [][ /\ rankOp'.op = "vote" /\ rankServer' # rankServer =>
           CountsMove(rankServer.ratings, rankServer'.ratings,
                      WinnerOf(currentPair, rankOp'.idx), LoserOf(currentPair, rankOp'.idx))
      /\ rankOp.op = "vote" /\ rankOp'.op = "voteOk" =>
           CountsMove(ratings, ratings',
                      WinnerOf(currentPair, rankOp.idx), LoserOf(currentPair, rankOp.idx)) ]_vars

\* the answer to a second accepted vote was applied: a title has played twice
\* and won once
C20_Witness ==
  /\ rankOp.op = "voteOk"
  /\ totalVotes = 2
  /\ \E t \in DOMAIN ratings : ratings[t].games = 2 /\ ratings[t].wins = 1

\* how often the pair {a, b} of a catalog {a, b, c} was voted on, from the
\* games each title played: every vote on {a, b} is a game of a and of b
VotesOnPair(r, a, b, c) == (r[a].games + r[b].games - r[c].games) \div 2

\* the pairs of {A, B, C} that were voted on at least once
PairsVotedOn(r) ==
  {pr \in {<<"A", "B", "C">>, <<"A", "C", "B">>, <<"B", "C", "A">>} :
     VotesOnPair(r, pr[1], pr[2], pr[3]) > 0}

\* C21: a pair counts as covered from its first vote on, in either direction,
\* and further votes on it add games and wins but no covered pair: for the
\* catalog {A, B, C} the device holds, after every counted vote, coveredPairs
\* = the number of pairs voted on at least once and totalPairs = 3, and no
\* voter's counter exceeds the overall one.
C21_CoveredCountsPairsOnce ==
  rankOp.op = "voteOk" =>
    /\ pairCoverage.totalPairs = 3
    /\ pairCoverage.coveredPairs = Cardinality(PairsVotedOn(ratings))
    /\ \A p \in SeqToSet(persons) :
         pairCoveragePerPerson[p].coveredPairs <= pairCoverage.coveredPairs

\* after votes on {A, B} and {A, C}, a third vote hit {A, B} again, won by B:
\* two pairs covered, A played three games
C21_Witness ==
  /\ rankOp.op = "voteOk"
  /\ totalVotes = 3
  /\ ratings["A"].games = 3 /\ ratings["A"].wins = 2
  /\ ratings["B"].games = 2 /\ ratings["B"].wins = 1
  /\ ratings["C"].games = 1 /\ ratings["C"].wins = 0
  /\ pairCoverage.coveredPairs = 2

\* C22: every rating the device holds has a sigma above zero and not below
\* the floor of 0.0001, whatever ts_sigma entries and tsConfig.sigma the
\* snapshots carried.
C22_SigmaAboveFloor ==
  \A t \in DOMAIN ratings : ratings[t].ts_sigma >= SigmaFloor /\ ratings[t].ts_sigma > 0

\* C23: the list of swipe voters always has 2 to 5 entries and
\* swipePersonCount is its length; a request for a count outside 2..5 is
\* rejected: it leaves the voters, the active voter and the progress as they
\* were.
C23_PersonsInRange ==
  [][ /\ Len(swipePersons') \in MinPersons..MaxPersons
      /\ swipePersonCount' = Len(swipePersons')
      /\ lastOp'.op = "setSwipePersons" /\ lastOp'.n \notin MinPersons..MaxPersons =>
           UNCHANGED <<swipePersons, swipePersonCount, swipeCurrentPerson,
                       swipeCurrentIndex, swipeProgress>> ]_vars

C25_DoneIffCursorAtEnd ==
  \A p \in {swipeCurrentPerson} \cup DOMAIN swipeProgress :
    LET st == ProgressOf(p, swipeCurrentPerson, swipeOrder, swipeCurrentIndex,
                         swipeCompleted, swipeProgress)
    IN st.done <=> st.idx >= Len(st.order)

\* C26: addSwipeMovie of a new title on an Open session appends the item,
\* leaves its Like Set empty, and gives every participant an order over the
\* new list (the new title included) with cursor 0.
C26_AddItemEffect ==
  [][ (lastOp'.op = "addSwipeMovie" /\ ~swipeLocked) =>
        LET t == lastOp'.title
            now == [i \in 1..Len(swipeSelectedMovies') |-> swipeSelectedMovies'[i].title]
        IN /\ Len(swipeSelectedMovies') = Len(swipeSelectedMovies) + 1
           /\ SubSeq(swipeSelectedMovies', 1, Len(swipeSelectedMovies)) = swipeSelectedMovies
           /\ swipeSelectedMovies'[Len(swipeSelectedMovies')].title = t
           /\ LikesOf(swipeLikes', t) = {}
           /\ DOMAIN swipeProgress' = SeqToSet(swipePersons)
           /\ \A p \in SeqToSet(swipePersons) :
                /\ IsPermutationOf(swipeProgress'[p].order, now)
                /\ Includes(swipeProgress'[p].order, t)
                /\ swipeProgress'[p].idx = 0
           /\ IsPermutationOf(swipeOrder', now) /\ swipeCurrentIndex' = 0 ]_vars

RECURSIVE HoldsFileValues(_, _)
HoldsFileValues(cfg, file) ==
  \A key \in DOMAIN Entries(file) :
    /\ key \in DOMAIN Entries(cfg)
    /\ IF IsPlainObject(Entries(file)[key])
       THEN HoldsFileValues(Entries(cfg)[key], Entries(file)[key])
       ELSE Entries(cfg)[key] = Entries(file)[key]

\* every key of the defaults that the file lacks holds the default
RECURSIVE KeepsDefaults(_, _, _)
KeepsDefaults(cfg, defaults, file) ==
  \A key \in DOMAIN Entries(defaults) :
    /\ key \in DOMAIN Entries(cfg)
    /\ IF key \notin DOMAIN Entries(file)
       THEN Entries(cfg)[key] = Entries(defaults)[key]
       ELSE IsPlainObject(Entries(file)[key]) =>
              KeepsDefaults(Entries(cfg)[key], Entries(defaults)[key], Entries(file)[key])

\* C28: after loadAppConfig every key of config/client.json, at any depth of
\* plain objects, holds the file's value in appConfig, every key the file
\* lacks keeps its built-in default, and a file that cannot be loaded leaves
\* the defaults as they are.
C28_ClientFileOverridesDefaults ==
  /\ configAnswer.kind = "ok" =>
       /\ HoldsFileValues(appConfig, configAnswer.data)
       /\ KeepsDefaults(appConfig, DefaultConfig, configAnswer.data)
  /\ configAnswer \in NotLoadable => appConfig = DefaultConfig

\* a file that sets ranker.runtime.min and api.port has been merged
C28_Witness ==
  /\ configAnswer.kind = "ok"
  /\ configAnswer.data = Obj([api |-> Obj([port |-> Num(0)]),
                              ranker |-> Obj([runtime |-> Obj([min |-> Num(7)])])])
  /\ appConfig.obj.api.obj.port = Num(0)
  /\ appConfig.obj.ranker.obj.runtime = Obj([min |-> Num(7), max |-> Num(300)])

\* C29: every pair that pair selection produces consists of two distinct
\* titles, each holding a Belief and each present in the catalog, so that
\* both entries of currentPair are defined.
C29_PairFromCatalog ==
  [][ (currentPair' # currentPair /\ currentPair' # Null) =>
        /\ PairPresent(currentPair', movies')
        /\ currentPair'[1] # currentPair'[2]
        /\ \A k \in 1..2 : currentPair'[k] \in DOMAIN ratings' ]_vars

\* C30: the titles already announced are forgotten when a session starts, so
\* a title that becomes a match while no modal is open is announced (its
\* modal is shown) whatever was announced in an earlier session.
C30_MatchAnnouncedPerSession ==
  [][ \A t \in Titles :
        (/\ t \notin swipeMatches /\ t \in swipeMatches'
         /\ ~matchModalOpen /\ shown[t] < MaxShown) =>
          (shown'[t] > shown[t] /\ matchModalOpen') ]_vars

\* C31: the cursor of the active voter moves forward only by a decision, by
\* one position, and the decision is for the item at the position it leaves.
C31_NoItemSkipped ==
  [][ (/\ swipeCurrentIndex' > swipeCurrentIndex
       /\ swipeCurrentPerson' = swipeCurrentPerson
       /\ swipeOrder' = swipeOrder) =>
        /\ IsDecision(lastOp')
        /\ swipeCurrentIndex' = swipeCurrentIndex + 1
        /\ swipeOrder[swipeCurrentIndex + 1] = lastOp'.title ]_vars

\* C32: while swipeStateReadyToPersist is false the backend's swipe state is
\* changed by no handler of the device except the forced persist of reset-all
\* (and POST /swipe-confirm, which is another endpoint): the unforced
\* persists of page initialisation and of list edits are not sent.
C32_NoPersistBeforeLoad ==
  [][ (~swipeStateReadyToPersist /\ server' # server) =>
        lastOp'.op \in {"resetAllStates", "confirmSwipeSetup"} ]_vars

\* a list edit made before the first load was answered left the session of
\* the other device as it was
C32_Witness ==
  /\ ~swipeStateReadyToPersist
  /\ lastOp.op = "addSwipeMovie"
  /\ TitlesNow = {"Y"}
  /\ server = SharedSession

\* C33: when two answers of GET /swipe-state carrying the same snapshot are
\* applied one after the other, the second application leaves the swipe
\* state of the device as the first one left it (items, voters, votes,
\* matches, every voter's order and cursor).
IsApplication(op) == op.op \in {"loadSwipeStateFromServer", "staleSwipeState"}

C33_ApplyTwiceSameAsOnce ==
  [][ (IsApplication(lastOp) /\ IsApplication(lastOp')) =>
        /\ swipeSelectedMovies' = swipeSelectedMovies
        /\ swipePersons' = swipePersons
        /\ swipeLikes' = swipeLikes
        /\ swipeMatches' = swipeMatches
        /\ swipeLocked' = swipeLocked
        /\ swipeCurrentPerson' = swipeCurrentPerson
        /\ swipeProgress' = swipeProgress
        /\ swipeOrder' = swipeOrder
        /\ swipeCurrentIndex' = swipeCurrentIndex
        /\ swipeCompleted' = swipeCompleted ]_vars

\* C34: every title with a non-empty Like Set and every matched title is the
\* title of an item of the current list.
C34_VotesOnlyForListedItems ==
  /\ \A t \in DOMAIN swipeLikes : swipeLikes[t] # {} => t \in TitlesNow
  /\ swipeMatches \subseteq TitlesNow

C36_ActiveVoterIsParticipant ==
  /\ Includes(persons, currentPerson)
  /\ Includes(swipePersons, swipeCurrentPerson)

\* C37: the list is cleared and everything is reset only by OK of a prompt
\* opened for that action, and the prompt is used up by it; opening a
\* prompt, cancelling it, OK without a pending prompt and a refused reset
\* leave the swipe state, the ranking state and the backend as they were,
\* and cancelling leaves no action pending.
C37_GuardedByConfirm ==
  [][ /\ \A a \in ConfirmActions :
           lastOp'.op = a =>
             /\ pendingConfirmAction = a
             /\ ~confirmHidden
             /\ pendingConfirmAction' = NoAction
      /\ lastOp'.op \in {"confirmCancel", "confirmOk"} =>
           /\ pendingConfirmAction' = NoAction
           /\ confirmHidden'
      /\ lastOp'.op \in {"openConfirmModal", "confirmCancel", "confirmOk", "resetAllFailed"} =>
           UNCHANGED <<swipeSelectedMovies, swipeLikes, swipeMatches, swipePersons,
                       swipeCurrentPerson, swipeCurrentIndex, swipeOrder, swipeCompleted,
                       swipeProgress, swipeLocked, server, movies, ratings,
                       comparisonCount, persons, currentPerson, totalVotes,
                       rankerConfirmed, rankServer>> ]_vars

\* OK was pressed with no prompt pending, on a confirmed list that is still
\* there
C37_Witness ==
  /\ lastOp.op = "confirmOk"
  /\ swipeLocked
  /\ TitlesNow = Titles

\* C38: fetchState calls loadMoviesFromCsv at most once, in the first fetch
\* of the page and with csvFallbackAttempted going from false to true; the
\* fetchState that loadMoviesFromCsv calls never has the fallback allowed;
\* and every call chain ends: again and again no request is under way.
C38_CsvFallbackChainEnds ==
  /\ [][ csvCalls' # csvCalls =>
           /\ csvCalls = 0
           /\ ~csvFallbackAttempted /\ csvFallbackAttempted'
           /\ rankOp'.op = "initOk" ]_vars
  /\ [](\A i \in 1..Len(rankInFlight) : rankInFlight[i].kind # "csvFallbackState")
  /\ []<>(rankInFlight = <<>>)

\* the longest chain has ended: first fetch, fallback to the CSV file, an
\* answer without state, the second fetch
C38_Witness ==
  /\ csvCalls = 1
  /\ rankOp.op = "csvStateOk"
  /\ rankInFlight = <<>>
  /\ Len(movies) < 2

\* C39: no two items of the swipe list have the same title.
C39_NoDuplicateTitles ==
  \A i, j \in 1..Len(swipeSelectedMovies) :
    swipeSelectedMovies[i].title = swipeSelectedMovies[j].title => i = j

\* the filtered list was merged with an item added by hand whose title the
\* catalog holds too
C39_Witness ==
  /\ lastOp.op = "loadSwipeFilteredList"
  /\ Len(swipeSelectedMovies) = 2
  /\ \E i \in 1..2 : swipeSelectedMovies[i] = [title |-> "X", source |-> "manual"]
  /\ \E i \in 1..2 : swipeSelectedMovies[i] = [title |-> "Y", source |-> "auto"]

\* C40: in every frame with a controller, a button that wasButtonPressed
\* reports is pressed in that frame and was not pressed in the frame before.
C40_EdgeOnlyOnNewPress ==
  [][ (\E gp \in SUBSET Buttons : GamepadFrame(gp)) =>
        \A b \in padEdges' : b \in padPressed' /\ b \notin padPressed ]_vars
====
